---- MODULE Spec2Model ----
(***************************************************************************)
(* State-machine model of the zkpoker coordinator: the message handlers    *)
(* (network/MessageHandler.ts), the connection registry                    *)
(* (network/ConnectionManager.ts), the room registry (game/RoomManager.ts),*)
(* the room / hand state machine (game/GameRoom.ts) and the betting engine *)
(* (game/GameEngine.ts).                                                   *)
(*                                                                         *)
(* Every handler is an operator from the state and its inputs to the new   *)
(* state and the error code it replies with; an action applies one         *)
(* handler.  The Groth16 verifier and the Poseidon hash are external: a    *)
(* proof is abstracted by what proofVerifier.verify returns for it, a      *)
(* commitment by a tagged copy of its pre-image.  Under Spec a handler     *)
(* that awaits a verification runs to completion before the next message   *)
(* is taken.                                                               *)
(***************************************************************************)
EXTENDS Integers, Sequences, FiniteSets, TLC

\* ---------------------------------------------------------------- bounds
StartingStack == 3          \* chips every player starts a hand with
MaxRank == 1                \* hand ranks a reveal may claim are 0..MaxRank
MaxDisconnects == 1         \* connections that close

\* ------------------------------------------------------ program constants
SmallBlind == 1
BigBlind == 2
MinPlayers == 2
MaxPlayers == 10

FOLD == 0
CHECK == 1
CALL == 2
BET == 3
RAISE == 4
ALL_IN == 5
ActionTypes == {FOLD, CHECK, CALL, BET, RAISE, ALL_IN}

PREFLOP == 0
FLOP == 1
TURN == 2
RIVER == 3
SHOWDOWN == 4

NoSeat == -1                \* getNextActivePlayer's "no active players found"
Null == "null"              \* JavaScript null / undefined
NoAggressor == << >>        \* lastAggressor = null; a seat s is <<s>>

\* ------------------------------------------------------------- utilities
Min(a, b) == IF a < b THEN a ELSE b

RECURSIVE SumSeq(_)
SumSeq(s) == IF s = << >> THEN 0 ELSE Head(s) + SumSeq(Tail(s))

RECURSIVE FilterSeq(_, _)
\* the subsequence of s at the positions whose element is in keep
FilterSeq(s, keep) ==
    IF s = << >> THEN << >>
    ELSE (IF Head(s) \in keep THEN <<Head(s)>> ELSE << >>) \o FilterSeq(Tail(s), keep)

Range(s) == {s[i] : i \in DOMAIN s}

\* ================================================================ engine
\* types/messages.ts createPlayerState
createPlayerState(id, seatIndex, stack) ==
    [id |-> id, seatIndex |-> seatIndex, stack |-> stack, streetBet |-> 0,
     totalBet |-> 0, folded |-> FALSE, allIn |-> FALSE, isConnected |-> TRUE]

\* types/game.ts createInitialGameState, called by the GameEngine constructor
\* without a button position
createInitialGameState(players) ==
    [players |-> players, pot |-> 0, street |-> PREFLOP, buttonPos |-> 0,
     actionPos |-> -1, lastAggressor |-> NoAggressor, lastRaiseAmount |-> BigBlind,
     minRaise |-> BigBlind, status |-> "shuffle", deck |-> << >>,
     currentShuffler |-> 0]

\* index into s.players of the player on that seat, 0 when there is none
getPlayerByIndex(s, seat) ==
    IF \E i \in DOMAIN s.players : s.players[i].seatIndex = seat
    THEN CHOOSE i \in DOMAIN s.players :
            /\ s.players[i].seatIndex = seat
            /\ \A j \in DOMAIN s.players : s.players[j].seatIndex = seat => i <= j
    ELSE 0

\* index into s.players of the player with that id, 0 when there is none
getPlayerById(s, id) ==
    IF \E i \in DOMAIN s.players : s.players[i].id = id
    THEN CHOOSE i \in DOMAIN s.players : s.players[i].id = id
    ELSE 0

getActivePlayers(s) ==
    {i \in DOMAIN s.players : ~s.players[i].folded /\ s.players[i].stack > 0}

NotFolded(s) == {i \in DOMAIN s.players : ~s.players[i].folded}
CanAct(s) == {i \in DOMAIN s.players : ~s.players[i].folded /\ ~s.players[i].allIn}

\* first seat after fromSeat, cyclically over 0..numPlayers-1, whose player
\* exists and is neither folded nor all-in
getNextActivePlayer(s, fromSeat) ==
    LET numPlayers == Len(s.players)
        seatAt(k) == (fromSeat + 1 + k) % numPlayers
        ok(k) == LET i == getPlayerByIndex(s, seatAt(k))
                 IN  i # 0 /\ ~s.players[i].folded /\ ~s.players[i].allIn
    IN  IF \E k \in 0..(numPlayers - 1) : ok(k)
        THEN seatAt(CHOOSE k \in 0..(numPlayers - 1) :
                        ok(k) /\ \A j \in 0..(numPlayers - 1) : ok(j) => k <= j)
        ELSE NoSeat

getSmallBlindPosition(s) ==
    IF Len(s.players) = 2 THEN s.buttonPos ELSE getNextActivePlayer(s, s.buttonPos)

getBigBlindPosition(s) == getNextActivePlayer(s, getSmallBlindPosition(s))

getUTGPosition(s) == getNextActivePlayer(s, getBigBlindPosition(s))

\* one blind: min(blind, stack) moves from the stack into the pot
PostOneBlind(s, i, blind) ==
    IF i = 0 THEN s
    ELSE LET p == s.players[i]
             amt == Min(blind, p.stack)
             q == [p EXCEPT !.stack = p.stack - amt, !.streetBet = amt,
                            !.totalBet = p.totalBet + amt,
                            !.allIn = IF p.stack - amt = 0 THEN TRUE ELSE p.allIn]
         IN  [s EXCEPT !.players[i] = q, !.pot = s.pot + amt]

\* the end of postBlinds, once both blinds are in
StartBetting(s) ==
    [s EXCEPT !.lastRaiseAmount = BigBlind, !.minRaise = BigBlind,
              !.actionPos = getUTGPosition(s), !.status = "betting"]

\* both positions are taken before either blind is posted
postBlinds(s) ==
    StartBetting(
        PostOneBlind(PostOneBlind(s, getPlayerByIndex(s, getSmallBlindPosition(s)),
                                  SmallBlind),
                     getPlayerByIndex(s, getBigBlindPosition(s)), BigBlind))

MaxOf(S) == CHOOSE m \in S : \A x \in S : x <= m

\* Math.max(...players.map(p => p.streetBet)), folded players included
maxStreetBet(s) == MaxOf({s.players[i].streetBet : i \in DOMAIN s.players})

getAmountToCall(s, i) ==
    Min(maxStreetBet(s) - s.players[i].streetBet, s.players[i].stack)

getValidActions(s) ==
    LET i == getPlayerByIndex(s, s.actionPos)
    IN  IF i = 0 \/ s.players[i].folded \/ s.players[i].allIn THEN {}
        ELSE LET p == s.players[i]
                 amountToCall == getAmountToCall(s, i)
                 mx == maxStreetBet(s)
             IN  {FOLD}
                 \cup (IF amountToCall = 0 THEN {CHECK} ELSE {CALL})
                 \cup (IF (mx = 0 \/ (s.street = PREFLOP /\ mx = BigBlind))
                          /\ p.stack > amountToCall THEN {BET} ELSE {})
                 \cup (IF mx > 0 /\ p.stack > amountToCall THEN {RAISE} ELSE {})
                 \cup (IF p.stack > 0 THEN {ALL_IN} ELSE {})

areAllBetsEqual(s) ==
    LET maxBet == MaxOf({s.players[i].streetBet : i \in NotFolded(s)})
    IN  \A i \in NotFolded(s) : s.players[i].streetBet = maxBet \/ s.players[i].allIn

\* advanceStreet past the river check: bets reset, the next street, the
\* first to act after the button, and on again if at most one player can act
RECURSIVE advanceStreet(_)
FirstToAct(s) == [s EXCEPT !.actionPos = getNextActivePlayer(s, s.buttonPos)]
OnIfNoAction(s) == IF Cardinality(CanAct(s)) <= 1 THEN advanceStreet(s) ELSE s

advanceStreet(s) ==
    IF s.street = RIVER
    THEN [s EXCEPT !.street = SHOWDOWN, !.status = "showdown"]
    ELSE OnIfNoAction(FirstToAct(
            [s EXCEPT
                !.players = [i \in DOMAIN s.players |->
                                [s.players[i] EXCEPT !.streetBet = 0]],
                !.lastAggressor = NoAggressor, !.minRaise = BigBlind,
                !.lastRaiseAmount = 0, !.street = s.street + 1]))

\* the conditions under which advanceAction, with the turn about to pass to
\* nextSeat, ends the street instead
StreetEndsAt(s, nextSeat) ==
    \/ nextSeat = NoSeat
    \/ /\ s.lastAggressor # NoAggressor /\ <<nextSeat>> = s.lastAggressor
       /\ areAllBetsEqual(s)
    \/ /\ s.lastAggressor = NoAggressor /\ areAllBetsEqual(s)
       /\ IF s.street = PREFLOP
          THEN nextSeat = getUTGPosition(s)
          ELSE nextSeat = getNextActivePlayer(s, s.buttonPos)

advanceAction(s) ==
    IF Cardinality(NotFolded(s)) = 1 THEN [s EXCEPT !.status = "finished"]
    ELSE IF \/ /\ Cardinality(CanAct(s)) <= 1
               /\ (areAllBetsEqual(s) \/ Cardinality(CanAct(s)) = 0)
            \/ StreetEndsAt(s, getNextActivePlayer(s, s.actionPos))
    THEN advanceStreet(s)
    ELSE [s EXCEPT !.actionPos = getNextActivePlayer(s, s.actionPos)]

Ok(s) == [state |-> s, success |-> TRUE, error |-> Null]
Fail(s, e) == [state |-> s, success |-> FALSE, error |-> e]

\* Each handle* below is the handler up to its closing this.advanceAction():
\* it fails, or succeeds with the state it hands to advanceAction, which
\* applyAction then runs (Advanced)
Advanced(r) == IF r.success THEN Ok(advanceAction(r.state)) ELSE r

handleFold(s, i) == Ok([s EXCEPT !.players[i].folded = TRUE])

handleCheck(s, i) ==
    IF getAmountToCall(s, i) > 0 THEN Fail(s, "Cannot check - must call or fold")
    ELSE Ok(s)

\* a chips move that debits the stack and does not credit the pot
PutChipsNoPot(s, i, amount, newStreetBet) ==
    LET p == s.players[i]
    IN  [s EXCEPT !.players[i] =
                     [p EXCEPT !.stack = p.stack - amount,
                               !.streetBet = newStreetBet,
                               !.totalBet = p.totalBet + amount,
                               !.allIn = IF p.stack - amount = 0 THEN TRUE ELSE p.allIn]]

\* the chips move of call, bet, raise and all-in: amount leaves the stack and
\* enters the pot, the street bet becomes newStreetBet
PutChips(s, i, amount, newStreetBet) ==
    LET p == s.players[i]
    IN  [s EXCEPT !.players[i] =
                     [p EXCEPT !.stack = p.stack - amount,
                               !.streetBet = newStreetBet,
                               !.totalBet = p.totalBet + amount,
                               !.allIn = IF p.stack - amount = 0 THEN TRUE ELSE p.allIn],
                  !.pot = s.pot + amount]

handleCall(s, i) ==
    LET amount == getAmountToCall(s, i)
    IN  Ok(PutChips(s, i, amount, s.players[i].streetBet + amount))

handleBet(s, i, amount) ==
    IF amount < BigBlind THEN Fail(s, "Minimum bet")
    ELSE IF amount > s.players[i].stack THEN Fail(s, "Insufficient chips")
    ELSE Ok([PutChips(s, i, amount, s.players[i].streetBet + amount)
                EXCEPT !.lastAggressor = <<s.players[i].seatIndex>>,
                       !.lastRaiseAmount = amount,
                       !.minRaise = amount])

handleRaise(s, i, totalAmount) ==
    LET currentMaxBet == maxStreetBet(s)
        raiseAmount == totalAmount - currentMaxBet
        additionalBet == totalAmount - s.players[i].streetBet
    IN  IF raiseAmount < s.minRaise /\ additionalBet < s.players[i].stack
        THEN Fail(s, "Minimum raise")
        ELSE IF additionalBet > s.players[i].stack THEN Fail(s, "Insufficient chips")
        ELSE Ok([PutChips(s, i, additionalBet, totalAmount)
                    EXCEPT !.lastAggressor = <<s.players[i].seatIndex>>,
                           !.lastRaiseAmount = raiseAmount,
                           !.minRaise = raiseAmount])

handleAllIn(s, i) ==
    LET p == s.players[i]
        amount == p.stack
        raiseAmount == (p.streetBet + amount) - maxStreetBet(s)
        s1 == IF raiseAmount > 0 /\ raiseAmount >= s.minRaise
              THEN [s EXCEPT !.lastAggressor = <<p.seatIndex>>,
                             !.lastRaiseAmount = raiseAmount,
                             !.minRaise = raiseAmount]
              ELSE s
    IN  Ok([s1 EXCEPT !.players[i] =
                         [p EXCEPT !.streetBet = p.streetBet + amount,
                                   !.totalBet = p.totalBet + amount,
                                   !.stack = 0, !.allIn = TRUE],
                      !.pot = s.pot + amount])

\* applyAction without the check of player.seatIndex against actionPos
HandledOutOfTurn(s, action) ==
    LET i == getPlayerById(s, action.playerId)
    IN  IF i = 0 THEN Fail(s, "Player not found")
        ELSE IF action.type \notin getValidActions(s) THEN Fail(s, "Invalid action")
        ELSE CASE action.type = FOLD -> handleFold(s, i)
               [] action.type = CHECK -> handleCheck(s, i)
               [] action.type = CALL -> handleCall(s, i)
               [] action.type = BET -> handleBet(s, i, action.amount)
               [] action.type = RAISE -> handleRaise(s, i, action.amount)
               [] action.type = ALL_IN -> handleAllIn(s, i)

\* applyAction up to the handler's closing this.advanceAction()
\* action = [playerId, type, amount]
Handled(s, action) ==
    LET i == getPlayerById(s, action.playerId)
    IN  IF i = 0 THEN Fail(s, "Player not found")
        ELSE IF s.players[i].seatIndex # s.actionPos THEN Fail(s, "Not your turn")
        ELSE IF action.type \notin getValidActions(s) THEN Fail(s, "Invalid action")
        ELSE CASE action.type = FOLD -> handleFold(s, i)
               [] action.type = CHECK -> handleCheck(s, i)
               [] action.type = CALL -> handleCall(s, i)
               [] action.type = BET -> handleBet(s, i, action.amount)
               [] action.type = RAISE -> handleRaise(s, i, action.amount)
               [] action.type = ALL_IN -> handleAllIn(s, i)

applyAction(s, action) == Advanced(Handled(s, action))


\* ================================================================== room
\* connection ids in the order addConnection hands them out (uuidv4: fresh
\* and opaque), and the room ids of the registry, of which one is modelled
PlayerOrder == <<"p1", "p2", "p3">>
Players == Range(PlayerOrder)
RoomIds == {"r1"}

EmptyMap == [x \in {} |-> Null]
NoEngine == [status |-> "null"]
NoReply == [code |-> "none", message |-> "none"]
Err(code, message) == [code |-> code, message |-> message]

\* what proofVerifier.verify makes of a submission's proof: "none" is an
\* absent (or empty) proof or public witness, "good" verifies, "bad" does not
Proofs == {"none", "good", "bad"}

\* the state of a GameRoom after its constructor.  ended is the game_ended
\* broadcast the handler at work has made, if any: it is part of what a
\* handler returns and is sent, not stored, when the handler is done.
\* lastButtonPos is the buttonPos of the hand that has ended, until the next
\* hand starts; bigBlindSeat is the seat postBlinds took the big blind of the
\* hand from, bigBlindTurn whether a player_turn notice of the hand has named
\* the player on that seat; acted is the set of players that have acted in
\* the betting round since it began or since its last bet or raise
NewRoom ==
    [status |-> "waiting", players |-> << >>, engine |-> NoEngine,
     deckCommitment |-> <<"0x0">>,
     cardCommitments |-> << >>,
     unmaskTrackers |-> EmptyMap, holeCardIndices |-> EmptyMap,
     handReveals |-> EmptyMap, previousStreet |-> PREFLOP,
     communityCardIndices |-> << >>, turnTimer |-> Null,
     showdownTimer |-> FALSE, ended |-> NoEngine, lastButtonPos |-> NoSeat,
     bigBlindSeat |-> NoSeat, bigBlindTurn |-> FALSE, acted |-> {}]

HasEngine(rm) == rm.engine.status # "null"
PlayerIds(rm) == {rm.players[i].id : i \in DOMAIN rm.players}
hasPlayer(rm, pid) == pid \in PlayerIds(rm)

\* players sorted by seat index (seats are distinct)
RECURSIVE SortBySeat(_)
SortBySeat(ps) ==
    IF ps = << >> THEN << >>
    ELSE LET i == CHOOSE i \in DOMAIN ps :
                    \A j \in DOMAIN ps : ps[i].seatIndex <= ps[j].seatIndex
         IN  <<ps[i]>> \o SortBySeat([k \in 1..(Len(ps) - 1) |->
                                         IF k < i THEN ps[k] ELSE ps[k + 1]])

findNextSeat(rm) ==
    LET taken == {rm.players[i].seatIndex : i \in DOMAIN rm.players}
        free == {i \in 0..(MaxPlayers - 1) : i \notin taken}
    IN  IF free = {} THEN NoSeat ELSE CHOOSE i \in free : \A j \in free : i <= j

\* the card commitment of the SDK (a Poseidon hash), and the deck a shuffle
\* by pid makes of a deck: the deck is the list of its shufflers, a card is
\* its deck, its index and the players who have removed their mask layer
cardCommitment(card) == <<"H", card>>
DeckSize == 52
ShuffledDeck(deck, pid) == Append(deck, pid)
DeckCard(deck, i) == [deck |-> deck, idx |-> i, un |-> {}]
PartialUnmask(card, pid) == [card EXCEPT !.un = card.un \cup {pid}]
deckCommitmentOf(deck) == <<"D", deck>>

\* the keys of unmaskTrackers: `${cardIndex}` and `community_${cardIndex}`
HoleKey(i) == <<"card", i>>
CommunityKey(i) == <<"community", i>>

\* cardCommitments.get(i).  The map is kept as the deck of the last shuffle,
\* which set all DeckSize entries; an unmask overwrites entry i with the
\* commitment of the tracker's new current card, so while card i has a
\* tracker the entry is the commitment of that tracker's current card
cardCommitmentsGet(rm, i) ==
    IF HoleKey(i) \in DOMAIN rm.unmaskTrackers
    THEN cardCommitment(rm.unmaskTrackers[HoleKey(i)].currentCard)
    ELSE IF CommunityKey(i) \in DOMAIN rm.unmaskTrackers
    THEN cardCommitment(rm.unmaskTrackers[CommunityKey(i)].currentCard)
    ELSE IF rm.cardCommitments # << >> /\ i \in 0..(DeckSize - 1)
    THEN cardCommitment(DeckCard(rm.cardCommitments, i))
    ELSE <<"undefined">>

\* ---------------------------------------------------------- end of hand
\* an end of hand that pays nobody
FoldWinnerNever(s, reason) == FALSE

\* endGame's test for paying the pot: activePlayers.length === 1 && reason === 'fold'
FoldWinner(s, reason) == Cardinality(NotFolded(s)) = 1 /\ reason = "fold"

endGame(rm, reason) ==
    IF ~HasEngine(rm) THEN rm
    ELSE LET s == rm.engine
             active == NotFolded(s)
             win == FoldWinner(s, reason)
             winner == CHOOSE i \in active : TRUE
             finalStacks == [i \in DOMAIN s.players |->
                               [playerId |-> s.players[i].id,
                                stack |-> IF win /\ i = winner
                                          THEN s.players[i].stack + s.pot
                                          ELSE s.players[i].stack]]
         IN  [rm EXCEPT
                !.status = "waiting", !.engine = NoEngine,
                !.unmaskTrackers = EmptyMap, !.holeCardIndices = EmptyMap,
                !.handReveals = EmptyMap, !.previousStreet = PREFLOP,
                !.communityCardIndices = << >>,
                !.turnTimer = Null, !.showdownTimer = FALSE,
                !.lastButtonPos = s.buttonPos,
                !.bigBlindSeat = NoSeat, !.bigBlindTurn = FALSE, !.acted = {},
                !.players = [i \in DOMAIN rm.players |->
                                [rm.players[i] EXCEPT !.isReady = FALSE]],
                !.ended = [status |-> "ended", reason |-> reason,
                           finalStacks |-> finalStacks, pot |-> s.pot,
                           buttonPos |-> s.buttonPos,
                           folded |-> {s.players[i].id : i \in
                                         {j \in DOMAIN s.players : s.players[j].folded}}]]

\* ------------------------------------------------------ joining, leaving
\* result: [room, success, error, seatIndex]
addPlayer(rm, pid) ==
    LET no(e) == [room |-> rm, success |-> FALSE, error |-> e]
        seatIndex == findNextSeat(rm)
    IN  IF rm.status # "waiting" THEN no("Game already in progress")
        ELSE IF Len(rm.players) >= MaxPlayers THEN no("Room is full")
        ELSE IF hasPlayer(rm, pid) THEN no("Already in room")
        ELSE IF seatIndex = NoSeat THEN no("No seats available")
        ELSE [room |-> [rm EXCEPT !.players =
                          Append(rm.players, [id |-> pid, seatIndex |-> seatIndex,
                                              isReady |-> FALSE])],
              success |-> TRUE, error |-> Null]

\* removePlayer, in its three steps: the player leaves the room's list; in a
\* hand, the player is folded and the hand ends if at most one player is
\* active; an empty room closes
FoldLeaver(rm, pid) ==
    LET i == getPlayerById(rm.engine, pid)
    IN  IF i = 0 THEN rm
        ELSE [rm EXCEPT !.engine.players[i].folded = TRUE,
                        !.engine.players[i].isConnected = FALSE]

EndIfAlone(rm) ==
    IF Cardinality(getActivePlayers(rm.engine)) <= 1 THEN endGame(rm, "fold") ELSE rm

LeaveHand(rm, pid) ==
    IF rm.status = "in_game" /\ HasEngine(rm) THEN EndIfAlone(FoldLeaver(rm, pid))
    ELSE rm

CloseIfEmpty(rm) == IF Len(rm.players) = 0 THEN [rm EXCEPT !.status = "closed"] ELSE rm

removePlayer(rm, pid) ==
    IF ~hasPlayer(rm, pid) THEN rm
    ELSE CloseIfEmpty(LeaveHand(
            [rm EXCEPT !.players =
                FilterSeq(rm.players, {q \in Range(rm.players) : q.id # pid})],
            pid))

startShufflePhase(rm) ==
    [rm EXCEPT !.engine.status = "shuffle", !.engine.currentShuffler = 0]

startGame(rm) ==
    LET sorted == SortBySeat(rm.players)
        playerStates == [i \in DOMAIN sorted |->
                            createPlayerState(sorted[i].id, sorted[i].seatIndex,
                                              StartingStack)]
    IN  startShufflePhase(
            [rm EXCEPT !.status = "in_game",
                       !.engine = createInitialGameState(playerStates),
                       !.unmaskTrackers = EmptyMap, !.holeCardIndices = EmptyMap,
                       !.handReveals = EmptyMap, !.ended = NoEngine,
                       !.lastButtonPos = NoSeat])

\* checkStartConditions without readyPlayers.length === this.players.size
checkStartConditionsSome(rm) ==
    IF rm.status # "waiting" THEN rm
    ELSE LET ready == {i \in DOMAIN rm.players : rm.players[i].isReady}
         IN  IF Cardinality(ready) >= MinPlayers THEN startGame(rm) ELSE rm

checkStartConditions(rm) ==
    IF rm.status # "waiting" THEN rm
    ELSE LET ready == {i \in DOMAIN rm.players : rm.players[i].isReady}
         IN  IF Cardinality(ready) >= MinPlayers /\ Cardinality(ready) = Len(rm.players)
             THEN startGame(rm) ELSE rm

setPlayerReady(rm, pid, isReady) ==
    IF ~hasPlayer(rm, pid) THEN rm
    ELSE checkStartConditions(
            [rm EXCEPT !.players = [i \in DOMAIN rm.players |->
                IF rm.players[i].id = pid
                THEN [rm.players[i] EXCEPT !.isReady = isReady]
                ELSE rm.players[i]]])


\* ------------------------------------------------------- turns and timers
notifyCurrentPlayer(rm) ==
    LET i == getPlayerByIndex(rm.engine, rm.engine.actionPos)
    IN  IF ~HasEngine(rm) \/ i = 0 THEN rm
        ELSE [rm EXCEPT !.turnTimer = rm.engine.players[i].id,
                        !.bigBlindTurn = @ \/ rm.engine.actionPos = rm.bigBlindSeat]

startBettingPhase(rm) ==
    IF ~HasEngine(rm) THEN rm
    ELSE notifyCurrentPlayer(
            [rm EXCEPT !.engine = postBlinds(rm.engine),
                       !.bigBlindSeat = getBigBlindPosition(rm.engine),
                       !.bigBlindTurn = FALSE, !.acted = {}])

\* --------------------------------------------------------------- dealing
HoleKeys(rm) == {k \in DOMAIN rm.unmaskTrackers : k[1] = "card"}
CommunityKeys(rm) == {k \in DOMAIN rm.unmaskTrackers : k[1] = "community"}

getRequiredUnmaskCount(rm, isCommunityCard) ==
    IF isCommunityCard THEN Len(rm.players) ELSE Len(rm.players) - 1

\* the trackers of the hole cards; the owner of seat position o is
\* players[o] of the room, and a missing owner (the room has fewer players
\* than the engine) raises a TypeError that ends the handler with the
\* trackers set so far
startUnmaskPhase(rm) ==
    LET numPlayers == Len(rm.engine.players)
        sorted == SortBySeat(rm.players)
        players == [i \in DOMAIN sorted |-> sorted[i].id]
        owners == 0..(Min(numPlayers, Len(players)) - 1)
        idxs == {o + c * numPlayers : o \in owners, c \in 0..1}
        ownerOf(ci) == players[(ci % numPlayers) + 1]
        fresh == [k \in {HoleKey(ci) : ci \in idxs} |->
                    [cardIndex |-> k[2], forPlayerId |-> ownerOf(k[2]),
                     unmaskedBy |-> {}, currentCard |-> DeckCard(rm.engine.deck, k[2]),
                     pendingPlayers |-> << >>,
                     requested |-> Range(players) \ {ownerOf(k[2])}]]
    IN  [rm EXCEPT !.unmaskTrackers =
            [k \in DOMAIN rm.unmaskTrackers \cup DOMAIN fresh |->
                IF k \in DOMAIN fresh THEN fresh[k] ELSE rm.unmaskTrackers[k]]]

startDealingPhase(rm) ==
    LET numPlayers == Len(rm.engine.players)
        players == SortBySeat(rm.players)
        rm1 == [rm EXCEPT !.engine.status = "dealing",
                          !.holeCardIndices =
                              [pid \in DOMAIN rm.holeCardIndices \cup PlayerIds(rm) |->
                                  IF pid \in PlayerIds(rm)
                                  THEN LET i == CHOOSE i \in DOMAIN players :
                                                    players[i].id = pid
                                       IN  <<i - 1, i - 1 + numPlayers>>
                                  ELSE rm.holeCardIndices[pid]]]
    IN  startUnmaskPhase(rm1)

dealCommunityCards(rm, cardIndices) ==
    LET playerIds == [i \in DOMAIN rm.players |-> rm.players[i].id]
        fresh == [k \in {CommunityKey(ci) : ci \in cardIndices} |->
                    [cardIndex |-> k[2], forPlayerId |-> "community",
                     unmaskedBy |-> {}, currentCard |-> DeckCard(rm.engine.deck, k[2]),
                     pendingPlayers |-> IF playerIds = << >> THEN << >>
                                        ELSE Tail(playerIds),
                     requested |-> IF playerIds = << >> THEN {}
                                   ELSE {Head(playerIds)}]]
    IN  [rm EXCEPT !.unmaskTrackers =
            [k \in DOMAIN rm.unmaskTrackers \cup DOMAIN fresh |->
                IF k \in DOMAIN fresh THEN fresh[k] ELSE rm.unmaskTrackers[k]]]

handleStreetAdvanced(rm, newStreet) ==
    LET holeCardsEnd == Len(rm.engine.players) * 2
        cardIndicesToDeal ==
            CASE newStreet = FLOP -> <<holeCardsEnd, holeCardsEnd + 1, holeCardsEnd + 2>>
              [] newStreet = TURN -> <<holeCardsEnd + 3>>
              [] newStreet = RIVER -> <<holeCardsEnd + 4>>
              [] OTHER -> << >>
        rm1 == [rm EXCEPT !.previousStreet = newStreet,
                          !.communityCardIndices = @ \o cardIndicesToDeal]
    IN  IF cardIndicesToDeal # << >>
        THEN dealCommunityCards(rm1, Range(cardIndicesToDeal)) ELSE rm1

checkHoleCardUnmaskComplete(rm) ==
    IF \E k \in HoleKeys(rm) :
          Cardinality(rm.unmaskTrackers[k].unmaskedBy) < getRequiredUnmaskCount(rm, FALSE)
    THEN rm
    ELSE startBettingPhase(rm)

checkCommunityUnmaskComplete(rm) ==
    IF ~HasEngine(rm) THEN rm
    ELSE IF \E k \in CommunityKeys(rm) :
          Cardinality(rm.unmaskTrackers[k].unmaskedBy) < getRequiredUnmaskCount(rm, TRUE)
    THEN rm
    ELSE notifyCurrentPlayer(
            [rm EXCEPT !.unmaskTrackers = [k \in HoleKeys(rm) |-> rm.unmaskTrackers[k]]])


\* -------------------------------------------------------------- showdown
startShowdown(rm) ==
    IF ~HasEngine(rm) THEN rm
    ELSE [rm EXCEPT !.handReveals = EmptyMap, !.showdownTimer = TRUE]

\* allContributors: the indices of the players with totalBet > 0, sorted by
\* totalBet ascending (Array.prototype.sort is stable)
RECURSIVE SortByTotalBet(_, _)
SortByTotalBet(s, idxs) ==
    IF idxs = {} THEN << >>
    ELSE LET i == CHOOSE i \in idxs : \A j \in idxs :
                     \/ s.players[i].totalBet < s.players[j].totalBet
                     \/ (s.players[i].totalBet = s.players[j].totalBet /\ i <= j)
         IN  <<i>> \o SortByTotalBet(s, idxs \ {i})

\* the loop of calculateSidePots from position i of allContributors on
RECURSIVE SidePotsFrom(_, _, _, _)
SidePotsFrom(s, all, i, previousBet) ==
    IF i > Len(all) THEN << >>
    ELSE LET contributionLevel == s.players[all[i]].totalBet
             sliceAmount == contributionLevel - previousBet
             numContributors == Len(all) - (i - 1)
             potAmount == sliceAmount * numContributors
             eligible == {j \in NotFolded(s) : s.players[j].totalBet >= contributionLevel}
             eligiblePlayers == FilterSeq([j \in DOMAIN s.players |-> j], eligible)
             pot == IF sliceAmount > 0 /\ eligible # {} /\ potAmount > 0
                    THEN <<[amount |-> potAmount, eligiblePlayers |-> eligiblePlayers]>>
                    ELSE << >>
         IN  pot \o SidePotsFrom(s, all, i + 1, contributionLevel)

\* side pots; eligiblePlayers lists indices into s.players, in array order
calculateSidePots(s) ==
    SidePotsFrom(s, SortByTotalBet(s, {i \in DOMAIN s.players : s.players[i].totalBet > 0}),
                 1, 0)

\* the rank that wins a pot: eligibleHands is sorted by b.handRank - a.handRank
\* and its first element is taken as the best hand
bestRankOf(ranks) == MaxOf(ranks)

\* the chips player index i wins from one pot, given the revealed ranks
PotShare(rm, pot, i) ==
    LET s == rm.engine
        hands == FilterSeq(pot.eligiblePlayers,
                           {j \in NotFolded(s) : s.players[j].id \in DOMAIN rm.handReveals})
        rank(j) == rm.handReveals[s.players[j].id].handRank
    IN  IF hands = << >> THEN 0
        ELSE LET bestRank == bestRankOf({rank(hands[k]) : k \in DOMAIN hands})
                 potWinners == FilterSeq(hands, {j \in Range(hands) : rank(j) = bestRank})
                 potPerWinner == pot.amount \div Len(potWinners)
                 remainder == pot.amount % Len(potWinners)
             IN  IF i \notin Range(potWinners) THEN 0
                 ELSE potPerWinner + (IF potWinners[1] = i THEN remainder ELSE 0)

\* winnings per player index of the whole showdown
Winnings(rm) ==
    LET sidePots == calculateSidePots(rm.engine)
    IN  [i \in DOMAIN rm.engine.players |->
            SumSeq([k \in DOMAIN sidePots |-> PotShare(rm, sidePots[k], i)])]

resolveShowdown(rm) ==
    IF ~HasEngine(rm) THEN rm
    ELSE LET s == rm.engine
             active == NotFolded(s)
         IN  IF Cardinality(active) = 1
             THEN LET w == CHOOSE i \in active : TRUE
                  IN  endGame([rm EXCEPT !.engine.players[w].stack = @ + s.pot], "showdown")
             ELSE LET win == Winnings(rm)
                  IN  endGame([rm EXCEPT !.engine.players =
                                  [i \in DOMAIN s.players |->
                                      [s.players[i] EXCEPT !.stack = @ + win[i]]]],
                              "showdown")

checkShowdownComplete(rm) ==
    IF \E i \in NotFolded(rm.engine) : rm.engine.players[i].id \notin DOMAIN rm.handReveals
    THEN rm
    ELSE resolveShowdown([rm EXCEPT !.showdownTimer = FALSE])

\* the loop of handleShowdownTimeout: who has not revealed forfeits
ForfeitNonRevealers(rm) ==
    [rm EXCEPT !.engine.players = [i \in DOMAIN rm.engine.players |->
        IF ~rm.engine.players[i].folded
           /\ rm.engine.players[i].id \notin DOMAIN rm.handReveals
        THEN [rm.engine.players[i] EXCEPT !.folded = TRUE]
        ELSE rm.engine.players[i]]]

handleShowdownTimeout(rm) ==
    IF ~HasEngine(rm) THEN rm
    ELSE resolveShowdown(ForfeitNonRevealers(rm))

\* --------------------------------------------------------------- betting
onActionComplete(rm, pid) ==
    IF ~HasEngine(rm) \/ getPlayerById(rm.engine, pid) = 0 THEN rm
    ELSE LET s == rm.engine
         IN  IF s.status = "finished" THEN endGame(rm, "fold")
             ELSE IF s.status = "showdown" THEN startShowdown(rm)
             ELSE IF s.street > rm.previousStreet /\ s.street # SHOWDOWN
             THEN handleStreetAdvanced(rm, s.street)
             ELSE IF Cardinality(getActivePlayers(s)) > 1 THEN notifyCurrentPlayer(rm)
             ELSE endGame(rm, "fold")

\* the room after engine.applyAction has returned result for an action of
\* pid; rejected is what the caller makes of a failure
ActedWith(rm, pid, t) ==
    IF maxStreetBet(t) > maxStreetBet(rm.engine) THEN {pid} ELSE rm.acted \cup {pid}

ActedAfter(rm, pid, t) ==
    IF t.street # rm.engine.street THEN {} ELSE ActedWith(rm, pid, t)

Acted(rm, pid, result, rejected) ==
    IF result.success
    THEN onActionComplete([rm EXCEPT !.engine = result.state, !.turnTimer = Null,
                                     !.acted = ActedAfter(rm, pid, result.state)], pid)
    ELSE rejected

\* the turn timer fires: it was armed for the player it folds
handleTurnTimeout(rm) ==
    IF ~HasEngine(rm) THEN [rm EXCEPT !.turnTimer = Null]
    ELSE Acted(rm, rm.turnTimer,
               applyAction(rm.engine,
                           [playerId |-> rm.turnTimer, type |-> FOLD, amount |-> 0]),
               [rm EXCEPT !.turnTimer = Null])


\* ----------------------------------------------------------- submissions
\* A submission's proof is what verify returns for it; its public signals
\* declare the commitment the proof starts from.  result: [room, reply]
Res(rm, reply) == [room |-> rm, reply |-> reply]

\* proofVerifier.verify(...).valid for a proof that is present
verify(proof) == proof = "good"

\* a gate that lets every proof pass
ProofRejectedNever(proof) == FALSE

\* the gate of every submit handler: with a proof and a public witness the
\* proof is verified, without them the submission passes with a warning
ProofRejected(proof) == proof # "none" /\ ~verify(proof)

\* sub = [proof, deckCommitmentBefore, deckCommitmentAfter]
submitShuffle(rm, pid, sub) ==
    IF ~HasEngine(rm) THEN Res(rm, NoReply)
    ELSE IF rm.engine.status # "shuffle"
    THEN Res(rm, Err("INVALID_STATE", "Not in shuffle phase"))
    ELSE LET players == SortBySeat(rm.players)
             cs == rm.engine.currentShuffler
         IN  IF cs + 1 > Len(players) \/ players[cs + 1].id # pid
             THEN Res(rm, Err("NOT_YOUR_TURN", "Not your turn to shuffle"))
             ELSE IF ProofRejected(sub.proof)
             THEN Res(rm, Err("INVALID_PROOF", "proof verification failed"))
             ELSE LET parsedDeck == ShuffledDeck(rm.engine.deck, pid)
                      rm1 == [rm EXCEPT !.engine.deck = parsedDeck,
                                        !.deckCommitment = sub.deckCommitmentAfter,
                                        !.cardCommitments = parsedDeck,
                                        !.engine.currentShuffler = cs + 1]
                  IN  IF cs + 1 >= Len(players)
                      THEN Res(startDealingPhase(rm1), NoReply)
                      ELSE Res(rm1, NoReply)

\* sub = [cardIndex, proof, inputCardCommitment]
submitUnmask(rm, pid, sub) ==
    IF ~HasEngine(rm) THEN Res(rm, NoReply)
    ELSE LET key == IF HoleKey(sub.cardIndex) \in DOMAIN rm.unmaskTrackers
                    THEN HoleKey(sub.cardIndex) ELSE CommunityKey(sub.cardIndex)
         IN  IF key \notin DOMAIN rm.unmaskTrackers
             THEN Res(rm, Err("INVALID_CARD", "Invalid card index for unmask"))
             ELSE LET tracker == rm.unmaskTrackers[key]
                      isCommunityCard == tracker.forPlayerId = "community"
                  IN  IF ~isCommunityCard /\ tracker.forPlayerId = pid
                      THEN Res(rm, Err("INVALID_UNMASK", "Cannot unmask your own card"))
                      ELSE IF pid \in tracker.unmaskedBy
                      THEN Res(rm, Err("ALREADY_UNMASKED",
                                       "Already submitted unmask for this card"))
                      ELSE IF ProofRejected(sub.proof)
                      THEN Res(rm, Err("INVALID_PROOF", "proof verification failed"))
                      ELSE LET parsedCard == PartialUnmask(tracker.currentCard, pid)
                               t1 == [tracker EXCEPT
                                        !.currentCard = parsedCard,
                                        !.unmaskedBy = @ \cup {pid},
                                        !.pendingPlayers =
                                            IF isCommunityCard /\ @ # << >>
                                            THEN Tail(@) ELSE @,
                                        !.requested =
                                            IF isCommunityCard
                                               /\ tracker.pendingPlayers # << >>
                                            THEN @ \cup {Head(tracker.pendingPlayers)}
                                            ELSE @]
                               rm1 == [rm EXCEPT !.unmaskTrackers[key] = t1]
                           IN  IF isCommunityCard
                               THEN IF tracker.pendingPlayers # << >>
                                    THEN Res(rm1, NoReply)
                                    ELSE Res(checkCommunityUnmaskComplete(rm1), NoReply)
                               ELSE Res(checkHoleCardUnmaskComplete(rm1), NoReply)

\* submitAction once engine.applyAction has returned result
ActionResult(rm, pid, result) ==
    IF ~result.success THEN Res(rm, Err("INVALID_ACTION", result.error))
    ELSE Res(Acted(rm, pid, result, rm), NoReply)

\* sub = [action, proof]
submitAction(rm, pid, sub) ==
    IF ~HasEngine(rm) THEN Res(rm, NoReply)
    ELSE IF rm.engine.status # "betting"
    THEN Res(rm, Err("INVALID_STATE", "Not in betting phase"))
    ELSE IF ProofRejected(sub.proof)
    THEN Res(rm, Err("INVALID_PROOF", "proof verification failed"))
    ELSE ActionResult(rm, pid, applyAction(rm.engine, sub.action))

\* this.handReveals.set(playerId, ...) of submitHandReveal
recordHandReveal(rm, pid, sub) ==
    [rm EXCEPT !.handReveals =
        [q \in DOMAIN rm.handReveals \cup {pid} |->
            IF q = pid
            THEN [handRank |-> sub.handRank, verified |-> sub.proof # "none"]
            ELSE rm.handReveals[q]]]

\* sub = [handRank, proof]
submitHandReveal(rm, pid, sub) ==
    IF ~HasEngine(rm) THEN Res(rm, NoReply)
    ELSE IF rm.engine.status # "showdown"
    THEN Res(rm, Err("INVALID_STATE", "Not in showdown phase"))
    ELSE LET i == getPlayerById(rm.engine, pid)
         IN  IF i = 0 \/ rm.engine.players[i].folded
             THEN Res(rm, Err("INVALID_PLAYER", "Not eligible for showdown"))
             ELSE IF ProofRejected(sub.proof)
             THEN Res(rm, Err("INVALID_PROOF", "proof verification failed"))
             ELSE Res(checkShowdownComplete(recordHandReveal(rm, pid, sub)), NoReply)


\* ============================================= registry and message layer
VARIABLES
    connections,    \* ConnectionManager.connections: the ids with a socket
    playerData,     \* ConnectionManager.playerData: id -> roomId (or Null)
    rooms,          \* RoomManager.rooms: roomId -> GameRoom
    nextConn,       \* how many connections addConnection has registered
    joined,         \* the clients that have been let into a room
    verifying,      \* the submissions awaiting proofVerifier.verify
    alive,          \* server.ts: the isAlive flag of every open socket
    card,           \* the SDK's card under mask and unmask
    decks,          \* the SDK's deck under permutation
    proofQueue      \* ProofQueue.ts: the queue, and what it has in progress

\* In Spec every proof is verified before the next message is handled, the
\* heartbeat is left out, and the SDK is not part of the server: these four
\* variables stay as Init leaves them, and each has a specification of its
\* own further down.  GameRoom does not go through the proof queue, which
\* has a specification of its own as well
aside == <<verifying, alive, card, decks, proofQueue>>
vars == <<connections, playerData, rooms, nextConn, joined, verifying, alive, card, decks,
          proofQueue>>

\* new ProofQueue(): queue = [], activeCount = 0; active are the items
\* whose proofVerifier.verify has not returned yet
NewQueue == [queue |-> << >>, activeCount |-> 0, active |-> {}]

World == [connections |-> connections, playerData |-> playerData, rooms |-> rooms]
WRes(w, reply) == [w |-> w, reply |-> reply]

\* ConnectionManager.setPlayerRoom: only a registered player has data
setPlayerRoom(pd, pid, roomId) ==
    IF pid \in DOMAIN pd THEN [pd EXCEPT ![pid] = roomId] ELSE pd

PutRoom(rs, rid, rm) == [r \in DOMAIN rs \cup {rid} |-> IF r = rid THEN rm ELSE rs[r]]
DropRoom(rs, rid) == [r \in DOMAIN rs \ {rid} |-> rs[r]]

\* RoomManager.createRoom (join_room without a roomId)
\* ids are the room ids the registry has room for (config.maxRooms of them)
createRoomAmong(ids, w, pid) ==
    IF DOMAIN w.rooms = ids
    THEN WRes(w, Err("MAX_ROOMS", "Maximum number of rooms reached"))
    ELSE LET rid == CHOOSE r \in ids : r \notin DOMAIN w.rooms
             result == addPlayer(NewRoom, pid)
         IN  IF ~result.success THEN WRes(w, Err("JOIN_FAILED", result.error))
             ELSE WRes([w EXCEPT !.rooms = PutRoom(w.rooms, rid, result.room),
                                 !.playerData = setPlayerRoom(w.playerData, pid, rid)],
                       NoReply)

createRoom(w, pid) == createRoomAmong(RoomIds, w, pid)

\* RoomManager.joinRoom (join_room with a roomId)
joinRoom(w, rid, pid) ==
    IF rid \notin DOMAIN w.rooms THEN WRes(w, Err("ROOM_NOT_FOUND", "Room not found"))
    ELSE LET result == addPlayer(w.rooms[rid], pid)
         IN  IF ~result.success THEN WRes(w, Err("JOIN_FAILED", result.error))
             ELSE WRes([w EXCEPT !.rooms[rid] = result.room,
                                 !.playerData = setPlayerRoom(w.playerData, pid, rid)],
                       NoReply)

\* GameRoom.removePlayer with its connectionManager.setPlayerRoom(id, null),
\* then the registry's clean-up of an empty room
CleanUp(rs, rid, rm) ==
    IF Len(rm.players) = 0 THEN DropRoom(rs, rid) ELSE PutRoom(rs, rid, rm)

RemoveFromRoom(w, rid, pid) ==
    IF rid \notin DOMAIN w.rooms THEN w
    ELSE [w EXCEPT !.playerData = IF hasPlayer(w.rooms[rid], pid)
                                  THEN setPlayerRoom(w.playerData, pid, Null)
                                  ELSE w.playerData,
                   !.rooms = CleanUp(w.rooms, rid, removePlayer(w.rooms[rid], pid))]

leaveRoom(w, rid, pid) == RemoveFromRoom(w, rid, pid)

\* RoomManager.handleDisconnect
roomHandleDisconnect(w, rid, pid) == RemoveFromRoom(w, rid, pid)

\* ConnectionManager.removeConnection
removeConnection(w, pid) ==
    [w EXCEPT !.connections = @ \ {pid},
              !.playerData = [q \in DOMAIN w.playerData \ {pid} |-> w.playerData[q]]]

\* ConnectionManager.getPlayerData(pid)?.roomId
roomIdOf(w, pid) == IF pid \in DOMAIN w.playerData THEN w.playerData[pid] ELSE Null

\* MessageHandler.handleDisconnect: the connection is removed first, the
\* player's data is looked up afterwards
AfterRemoval(w, pid) ==
    IF roomIdOf(w, pid) # Null THEN roomHandleDisconnect(w, roomIdOf(w, pid), pid)
    ELSE w

handleDisconnect(w, pid) == AfterRemoval(removeConnection(w, pid), pid)

handleLeaveRoom(w, pid) ==
    IF roomIdOf(w, pid) # Null THEN leaveRoom(w, roomIdOf(w, pid), pid) ELSE w

handleReady(w, pid, isReady) ==
    LET rid == roomIdOf(w, pid)
    IN  IF rid # Null /\ rid \in DOMAIN w.rooms
        THEN [w EXCEPT !.rooms[rid] = setPlayerReady(w.rooms[rid], pid, isReady)]
        ELSE w

\* the registry with what the room's handler has returned
Submitted(w, rid, r) == WRes([w EXCEPT !.rooms[rid] = r.room], r.reply)

\* the common shape of handleSubmitAction / Shuffle / Unmask / HandReveal and
\* of the RoomManager method each calls; r is what the room's handler returns
\* when the sender's room is found
InRoomUnchecked(w, pid, r) ==
    IF roomIdOf(w, pid) \notin DOMAIN w.rooms
    THEN WRes(w, Err("ROOM_NOT_FOUND", "Room not found"))
    ELSE Submitted(w, roomIdOf(w, pid), r)
InRoom(w, pid, r) ==
    IF roomIdOf(w, pid) = Null THEN WRes(w, Err("NOT_IN_ROOM", "You are not in a room"))
    ELSE IF roomIdOf(w, pid) \notin DOMAIN w.rooms
    THEN WRes(w, Err("ROOM_NOT_FOUND", "Room not found"))
    ELSE Submitted(w, roomIdOf(w, pid), r)

handleSubmitShuffle(w, pid, sub) ==
    InRoom(w, pid, submitShuffle(w.rooms[roomIdOf(w, pid)], pid, sub))

handleSubmitUnmask(w, pid, sub) ==
    InRoom(w, pid, submitUnmask(w.rooms[roomIdOf(w, pid)], pid, sub))

handleSubmitAction(w, pid, sub) ==
    InRoom(w, pid, submitAction(w.rooms[roomIdOf(w, pid)], pid, sub))

handleSubmitHandReveal(w, pid, sub) ==
    InRoom(w, pid, submitHandReveal(w.rooms[roomIdOf(w, pid)], pid, sub))

\* handleMessage's switch over the four submit_* message types
handleSubmit(w, kind, pid, sub) ==
    CASE kind = "shuffle" -> handleSubmitShuffle(w, pid, sub)
      [] kind = "unmask" -> handleSubmitUnmask(w, pid, sub)
      [] kind = "action" -> handleSubmitAction(w, pid, sub)
      [] kind = "reveal" -> handleSubmitHandReveal(w, pid, sub)

\* ------------------------------------------------------------ the inputs
Amounts == 0..(StartingStack + 1)
HandRanks == 0..MaxRank
MismatchCommitment == <<"mismatch">>

\* the amount matters to BET and RAISE only; the other types are sent with 0
Actions(pid) ==
    [playerId : {pid}, type : {BET, RAISE}, amount : Amounts]
        \cup [playerId : {pid}, type : ActionTypes \ {BET, RAISE}, amount : {0}]

ShuffleSubs(rm, pid) ==
    [proof : Proofs,
     deckCommitmentBefore : {rm.deckCommitment, MismatchCommitment},
     deckCommitmentAfter : {deckCommitmentOf(ShuffledDeck(rm.engine.deck, pid))}]

\* the clients of a room that can still answer it
Present(rm) == PlayerIds(rm) \cap connections

PosOf(pid) == CHOOSE i \in DOMAIN PlayerOrder : PlayerOrder[i] = pid

\* the unanswered unmask requests <<card, client>> of the clients present
Requested(rm) ==
    {<<k[2], q>> : k \in DOMAIN rm.unmaskTrackers, q \in Present(rm)}
        \cap UNION {{<<k[2], q>> : q \in rm.unmaskTrackers[k].requested
                                          \ rm.unmaskTrackers[k].unmaskedBy}
                    : k \in DOMAIN rm.unmaskTrackers}

\* The handlers of two unmask submissions commute, so the clients are taken to
\* answer the requests one at a time, in card order and, per card, in
\* connection order; card 0 stands for the submissions the room turns down
\* (an own card, a card already unmasked)
UnmaskSubs(rm, pid) ==
    LET req == Requested(rm)
        first == {r \in req : \A o \in req :
                     r[1] < o[1] \/ (r[1] = o[1] /\ PosOf(r[2]) <= PosOf(o[2]))}
        next == {r[1] : r \in {f \in first : f[2] = pid}}
    IN  UNION {[cardIndex : {ci}, proof : Proofs,
                inputCardCommitment : {cardCommitmentsGet(rm, ci), MismatchCommitment}]
               : ci \in next \cup {0}}

ActionSubs(pid) == [action : Actions(pid), proof : Proofs]

\* the players of the hand that have yet to reveal and are present to do so
ToReveal(rm) ==
    {q \in Present(rm) \ DOMAIN rm.handReveals :
        getPlayerById(rm.engine, q) \in NotFolded(rm.engine)}

\* reveals commute as well: the clients yet to reveal do so in connection order
RevealSubs(rm, pid) ==
    IF HasEngine(rm) /\ pid \in ToReveal(rm)
       /\ \E q \in ToReveal(rm) : PosOf(q) < PosOf(pid)
    THEN {}
    ELSE [handRank : HandRanks, proof : Proofs]

Subs(rm, kind, pid) ==
    CASE kind = "shuffle" -> IF HasEngine(rm) THEN ShuffleSubs(rm, pid) ELSE {}
      [] kind = "unmask" -> UnmaskSubs(rm, pid)
      [] kind = "action" -> ActionSubs(pid)
      [] kind = "reveal" -> RevealSubs(rm, pid)

Kinds == {"shuffle", "unmask", "action", "reveal"}

\* --------------------------------------------------------------- actions
\* a room once its broadcasts are sent
Sent(rm) == [rm EXCEPT !.ended = NoEngine]

\* The continuation of a submit handler holds the engine state of the hand
\* it was sent in.  A verification is followed for as long as the phase and
\* the shuffle turn it was sent in last: it is among verifying until it
\* completes or the hand moves on or ends, whichever comes first
StillVerifying(pending, rs) ==
    {v \in pending : /\ v.rid \in DOMAIN rs
                     /\ rs[v.rid].engine.status = v.status
                     /\ rs[v.rid].engine.currentShuffler = v.turn}

Store(w) ==
    /\ connections' = w.connections
    /\ playerData' = w.playerData
    /\ rooms' = [r \in DOMAIN w.rooms |-> Sent(w.rooms[r])]
    /\ verifying' = StillVerifying(verifying, w.rooms)
    /\ UNCHANGED <<alive, card, decks, proofQueue>>

Apply(w) == Store(w) /\ UNCHANGED <<nextConn, joined>>

Init ==
    /\ connections = {}
    /\ playerData = EmptyMap
    /\ rooms = EmptyMap
    /\ nextConn = 0
    /\ joined = {}
    /\ verifying = {} /\ proofQueue = NewQueue /\ alive = EmptyMap /\ card = Null /\ decks = Null

\* server.ts on('connection'): addConnection registers a fresh id.  Ids are
\* opaque and a connection without a room takes no part in anything, so
\* clients are taken to connect when the clients before them have joined
Connect ==
    /\ nextConn < Len(PlayerOrder)
    /\ Cardinality(joined) = nextConn
    /\ LET pid == PlayerOrder[nextConn + 1]
       IN  /\ connections' = connections \cup {pid}
           /\ playerData' = [q \in DOMAIN playerData \cup {pid} |->
                                IF q = pid THEN Null ELSE playerData[q]]
    /\ nextConn' = nextConn + 1
    /\ UNCHANGED <<rooms, joined, aside>>

\* server.ts on('close')
Disconnect(pid) ==
    /\ pid \in connections
    /\ nextConn - Cardinality(connections) < MaxDisconnects
    /\ Apply(handleDisconnect(World, pid))

\* MessageHandler.handleJoinRoom
handleJoinRoom(w, rid, pid) ==
    IF rid = Null THEN createRoom(w, pid).w ELSE joinRoom(w, rid, pid).w

Joined(w, pid) ==
    /\ Store(w)
    /\ joined' = IF roomIdOf(w, pid) # Null THEN joined \cup {pid} ELSE joined
    /\ UNCHANGED nextConn

\* a client sends join_room until it has been let into a room
JoinRoom(pid) ==
    /\ pid \in connections \ joined
    /\ \E rid \in RoomIds \cup {Null} : Joined(handleJoinRoom(World, rid, pid), pid)

LeaveRoom(pid) ==
    /\ pid \in connections
    /\ Apply(handleLeaveRoom(World, pid))

Ready(pid) ==
    /\ pid \in connections
    /\ \E isReady \in BOOLEAN : Apply(handleReady(World, pid, isReady))

\* a connected client in a room of the registry
Sender(pid) == pid \in connections /\ roomIdOf(World, pid) \in DOMAIN rooms

\* Clients send a submit_* message while what it answers is outstanding in
\* their room, in turn or out of turn: a shuffle while the hand is being
\* shuffled, an unmask while an unmask request is unanswered, an action while
\* a player_turn notice is, a hand reveal while the showdown is open
SubmitShuffle(pid) ==
    /\ Sender(pid)
    /\ rooms[roomIdOf(World, pid)].engine.status = "shuffle"
    /\ \E sub \in Subs(rooms[roomIdOf(World, pid)], "shuffle", pid) :
          Apply(handleSubmitShuffle(World, pid, sub).w)

SubmitUnmask(pid) ==
    /\ Sender(pid)
    /\ Requested(rooms[roomIdOf(World, pid)]) # {}
    /\ \E sub \in Subs(rooms[roomIdOf(World, pid)], "unmask", pid) :
          Apply(handleSubmitUnmask(World, pid, sub).w)

SubmitAction(pid) ==
    /\ Sender(pid)
    /\ rooms[roomIdOf(World, pid)].turnTimer # Null
    /\ \E sub \in Subs(rooms[roomIdOf(World, pid)], "action", pid) :
          Apply(handleSubmitAction(World, pid, sub).w)

SubmitHandReveal(pid) ==
    /\ Sender(pid)
    /\ rooms[roomIdOf(World, pid)].showdownTimer
    /\ \E sub \in Subs(rooms[roomIdOf(World, pid)], "reveal", pid) :
          Apply(handleSubmitHandReveal(World, pid, sub).w)

TurnTimeout(rid) ==
    /\ rid \in DOMAIN rooms
    /\ rooms[rid].turnTimer # Null
    /\ rooms' = [rooms EXCEPT ![rid] = Sent(handleTurnTimeout(rooms[rid]))]
    /\ verifying' = StillVerifying(verifying, rooms')
    /\ UNCHANGED <<connections, playerData, nextConn, joined, alive, card, decks, proofQueue>>

ShowdownTimeout(rid) ==
    /\ rid \in DOMAIN rooms
    /\ rooms[rid].showdownTimer
    /\ rooms' = [rooms EXCEPT ![rid] = Sent(handleShowdownTimeout(rooms[rid]))]
    /\ verifying' = StillVerifying(verifying, rooms')
    /\ UNCHANGED <<connections, playerData, nextConn, joined, alive, card, decks, proofQueue>>

Next ==
    \/ Connect
    \/ \E pid \in Players : Disconnect(pid)
    \/ \E pid \in Players : JoinRoom(pid)
    \/ \E pid \in Players : LeaveRoom(pid)
    \/ \E pid \in Players : Ready(pid)
    \/ \E pid \in Players : SubmitShuffle(pid)
    \/ \E pid \in Players : SubmitUnmask(pid)
    \/ \E pid \in Players : SubmitAction(pid)
    \/ \E pid \in Players : SubmitHandReveal(pid)
    \/ \E rid \in RoomIds : TurnTimeout(rid)
    \/ \E rid \in RoomIds : ShowdownTimeout(rid)

Spec == Init /\ [][Next]_vars


\* ================================================================ claims
\* the rooms of the registry, and the submissions a state offers: a kind, a
\* sender that is in a room of the registry, and what it sends
RoomOf(pid) == rooms[roomIdOf(World, pid)]
Senders == {pid \in Players : Sender(pid)}
Submissions ==
    UNION {{[kind |-> kind, pid |-> pid, sub |-> sub] : sub \in Subs(RoomOf(pid), kind, pid)}
           : kind \in Kinds, pid \in Senders}

\* what the server makes of a submission: the room afterwards and the reply
After(m) == handleSubmit(World, m.kind, m.pid, m.sub).w.rooms[roomIdOf(World, m.pid)]
ReplyTo(m) == handleSubmit(World, m.kind, m.pid, m.sub).reply
Applied(m) == After(m) # RoomOf(m.pid)
WithProof(m, proof) == [m EXCEPT !.sub.proof = proof]

\* the commitment a submission's public signals declare it starts from, and
\* the server's own
Declared(m) ==
    CASE m.kind = "shuffle" -> m.sub.deckCommitmentBefore
      [] m.kind = "unmask" -> m.sub.inputCardCommitment
      [] OTHER -> <<"none">>
Canonical(m) ==
    CASE m.kind = "shuffle" -> RoomOf(m.pid).deckCommitment
      [] m.kind = "unmask" -> cardCommitmentsGet(RoomOf(m.pid), m.sub.cardIndex)
      [] OTHER -> <<"none">>

\* C1: a shuffle, unmask, betting-action or hand-reveal submission changes the
\* room's state only if its proof has been verified successfully; one with no
\* proof or with a proof that fails verification changes nothing.
C1_OnlyVerifiedSubmissionsApply ==
    \A m \in Submissions : Applied(m) => m.sub.proof # "none" /\ verify(m.sub.proof)

\* C2: a submission whose declared public signals differ from the server's own
\* commitment (deck commitment for a shuffle, the card's commitment for an
\* unmask) applies no transition and, in a room that has a hand in progress,
\* is answered with an error, even when the proof verifies.
C2_MismatchingSignalsRejected ==
    \A m \in Submissions :
        m.kind \in {"shuffle", "unmask"} /\ Declared(m) # Canonical(m)
            => /\ ~Applied(m)
               /\ HasEngine(RoomOf(m.pid)) => ReplyTo(m).code # "none"

\* C3: when verification of a submitted proof returns invalid, the room is
\* exactly what it was before the submission, and the sender is answered
\* INVALID_PROOF (unless a check that precedes verification has turned the
\* submission down with its own error: it is INVALID_PROOF whenever the same
\* submission with a verifying proof is accepted).
C3_InvalidProofChangesNothing ==
    \A m \in Submissions :
        m.sub.proof # "none" /\ ~verify(m.sub.proof)
            => LET r == handleSubmit(World, m.kind, m.pid, m.sub)
               IN  /\ r.w.rooms[roomIdOf(World, m.pid)] = RoomOf(m.pid)
                   /\ r.reply.code # "none" \/ ~HasEngine(RoomOf(m.pid))
                   /\ r.reply.code # "INVALID_PROOF" /\ HasEngine(RoomOf(m.pid))
                          => ReplyTo(WithProof(m, "good")).code # "none"

\* C3 witness: a betting action with an invalid proof that would be applied
\* with a verifying one is answered INVALID_PROOF
C3_Witness ==
    \E m \in Submissions :
        /\ m.kind = "action" /\ m.sub.proof = "bad"
        /\ Applied(WithProof(m, "good"))
        /\ ReplyTo(m).code = "INVALID_PROOF"


\* ------------------------------------------------------------- the engine
\* the engines of the rooms that have a hand in progress
Engines == {rooms[r].engine : r \in {x \in DOMAIN rooms : HasEngine(rooms[x])}}
Betting == {e \in Engines : e.status = "betting"}

Stacks(s) == SumSeq([i \in DOMAIN s.players |-> s.players[i].stack])
ChipsIn(s) == Stacks(s) + s.pot

\* every action a player of the hand may send
EngineActions(s) == UNION {Actions(s.players[i].id) : i \in DOMAIN s.players}

\* the pot of t has grown over that of s by what left the stack of player i,
\* and no other stack has changed
PaidBy(s, t, i) ==
    /\ t.pot - s.pot = s.players[i].stack - t.players[i].stack
    /\ \A j \in DOMAIN s.players \ {i} : t.players[j].stack = s.players[j].stack

\* C4: for every betting action the engine applies, and for the posting of the
\* blinds, the pot grows by exactly the chips taken from the stacks of the
\* players who pay, so stacks plus pot is the same after the step as before.
C4_PotGrowsByChipsPaid ==
    /\ \A s \in Betting : \A a \in EngineActions(s) :
          LET r == applyAction(s, a)
          IN  r.success => /\ PaidBy(s, r.state, getPlayerById(s, a.playerId))
                           /\ ChipsIn(r.state) = ChipsIn(s)
    /\ \A s \in Engines :
          LET t == postBlinds(s)
          IN  /\ ChipsIn(t) = ChipsIn(s)
              /\ t.pot - s.pot = Stacks(s) - Stacks(t)
              /\ \A i \in DOMAIN s.players : t.players[i].stack <= s.players[i].stack

\* C4 witness: the blinds of a hand have been posted and a raise that puts
\* chips into the pot is applied
C4_Witness ==
    \E s \in Betting : \E a \in EngineActions(s) :
        /\ s.pot = SmallBlind + BigBlind
        /\ a.type = RAISE /\ applyAction(s, a).success
        /\ applyAction(s, a).state.pot > s.pot

\* the amounts of a list of side pots
PotTotal(pots) == SumSeq([k \in DOMAIN pots |-> pots[k].amount])

\* the rooms resolveShowdown is called with from a state: with the reveal that
\* completes the showdown, or with the forfeits of the showdown timeout
Resolving ==
    UNION {{recordHandReveal(RoomOf(m.pid), m.pid, m.sub) : m \in
              {x \in Submissions : x.kind = "reveal" /\ Applied(x)
                                   /\ ~HasEngine(After(x))}}}
      \cup {ForfeitNonRevealers(rooms[r]) : r \in
              {x \in DOMAIN rooms : HasEngine(rooms[x]) /\ rooms[x].showdownTimer}}

\* C5: at every showdown the amounts of the side pots computed from the
\* players' total bets sum to the pot, and the eligible players of every side
\* pot are players who have not folded.  (resolveShowdown computes the side
\* pots unless exactly one player has not folded.)
C5_SidePotsSumToPot ==
    \A rm \in Resolving :
        LET pots == calculateSidePots(rm.engine)
        IN  Cardinality(NotFolded(rm.engine)) # 1 =>
              /\ PotTotal(pots) = rm.engine.pot
              /\ \A k \in DOMAIN pots :
                    Range(pots[k].eligiblePlayers) \subseteq NotFolded(rm.engine)

\* C6: at showdown each pot goes to the eligible players whose revealed rank
\* is numerically lowest: nobody receives chips from a pot in which another
\* eligible player has revealed a numerically lower rank.
C6_LowestRankWins ==
    \A rm \in Resolving :
        LET s == rm.engine
            pots == calculateSidePots(s)
            revealed(j) == s.players[j].id \in DOMAIN rm.handReveals
            rank(j) == rm.handReveals[s.players[j].id].handRank
        IN  Cardinality(NotFolded(s)) # 1 =>
              \A k \in DOMAIN pots : \A i \in DOMAIN s.players :
                  PotShare(rm, pots[k], i) > 0 =>
                      \A j \in Range(pots[k].eligiblePlayers) :
                          revealed(j) => rank(j) >= rank(i)

\* the current player of a hand (0 if the action position is no player's)
Current(s) == getPlayerByIndex(s, s.actionPos)

\* applyAction by the current player succeeds for a type, with some amount
Accepts(s, type) ==
    \E amount \in Amounts :
        applyAction(s, [playerId |-> s.players[Current(s)].id,
                        type |-> type, amount |-> amount]).success

\* C7: in every reachable betting state getValidActions returns exactly the
\* action types for which applyAction by the current player succeeds.
C7_ValidActionsExact ==
    \A s \in Betting :
        Current(s) # 0 => \A type \in ActionTypes : type \in getValidActions(s) <=> Accepts(s, type)


\* ------------------------------------------------------------ disconnect
\* the room of pid once the server has handled the close of pid's connection
\* (a room the registry has deleted has no hand)
AfterDisconnect(pid) ==
    LET w == handleDisconnect(World, pid)
        rid == roomIdOf(World, pid)
    IN  IF rid \in DOMAIN w.rooms THEN w.rooms[rid] ELSE NewRoom

\* C8: when the connection of a player of a hand closes, the player is folded
\* at once; if that leaves one player who has not folded, the hand ends and
\* that player collects the pot.
C8_DisconnectForfeits ==
    \A pid \in Senders :
        LET s == RoomOf(pid).engine
            i == getPlayerById(s, pid)
            after == AfterDisconnect(pid)
            others == NotFolded(s) \ {i}
        IN  HasEngine(RoomOf(pid)) /\ i # 0 /\ ~s.players[i].folded =>
              /\ HasEngine(after) => after.engine.players[i].folded
              /\ Cardinality(others) = 1 =>
                    /\ ~HasEngine(after)
                    /\ after.ended.status = "ended"
                    /\ \A j \in others :
                          after.ended.finalStacks[j].stack = s.players[j].stack + s.pot

\* ---------------------------------------------------------- dealer button
\* the seat of a hand's players that follows seat clockwise
SeatAfter(s, seat) ==
    LET seats == {s.players[i].seatIndex : i \in DOMAIN s.players}
        above == {x \in seats : x > seat}
    IN  IF above # {} THEN CHOOSE x \in above : \A y \in above : x <= y
        ELSE CHOOSE x \in seats : \A y \in seats : x <= y

\* C9: across consecutive hands of one room the dealer button moves forward by
\* exactly one seat: the hand a ready message starts has its button on the
\* seat after the button of the hand that ended before.
C9_ButtonAdvances ==
    \A pid \in Senders :
        LET rm == RoomOf(pid)
            after == handleReady(World, pid, TRUE).rooms[roomIdOf(World, pid)]
        IN  ~HasEngine(rm) /\ HasEngine(after) /\ rm.lastButtonPos # NoSeat
                => after.engine.buttonPos = SeatAfter(after.engine, rm.lastButtonPos)

\* -------------------------------------------------------- big blind option
HandsBetting == {rooms[r] : r \in {x \in DOMAIN rooms :
                    HasEngine(rooms[x]) /\ rooms[x].engine.status = "betting"}}

\* the player the big blind of the hand was taken from (0 if from nobody)
BigBlindPlayer(rm) == getPlayerByIndex(rm.engine, rm.bigBlindSeat)

\* preflop, nobody has raised, and the big blind, still in the hand and not
\* all-in, has not been given a turn yet
AwaitsBigBlind(rm) ==
    LET s == rm.engine
        bb == BigBlindPlayer(rm)
    IN  /\ s.street = PREFLOP /\ maxStreetBet(s) = BigBlind
        /\ bb # 0 /\ ~s.players[bb].folded /\ ~s.players[bb].allIn
        /\ ~rm.bigBlindTurn

\* C10: in a preflop round in which nobody has raised, the street does not end
\* before the big blind (still in the hand, not all-in) has had its turn: an
\* action of another player that leaves two or more players in the hand and
\* raises nothing leaves the hand in the preflop round.
C10_BigBlindOption ==
    \A rm \in HandsBetting : \A a \in EngineActions(rm.engine) :
        LET r == applyAction(rm.engine, a)
        IN  /\ AwaitsBigBlind(rm) /\ r.success
            /\ Cardinality(NotFolded(r.state)) > 1
            /\ maxStreetBet(r.state) <= BigBlind
            => r.state.street = PREFLOP /\ r.state.status = "betting"

\* ------------------------------------------------------ end of the street
\* the highest street bet of the players still in the hand
MaxActiveBet(s) == MaxOf({s.players[i].streetBet : i \in NotFolded(s)})

\* C11: a betting street ends only when every player who is still in the hand
\* and not all-in has acted on it since it began or since its last bet or
\* raise, and their street bets are equal: an accepted action that moves a
\* hand of two or more players to the next street (or to showdown) finds all
\* of them in the set of players that have acted, with the highest bet.
C11_StreetEndsWhenAllActed ==
    \A rm \in HandsBetting : \A a \in EngineActions(rm.engine) :
        LET h == Handled(rm.engine, a)
            r == Advanced(h)
        IN  /\ r.success
            /\ Cardinality(NotFolded(r.state)) > 1
            /\ r.state.street # rm.engine.street
            => \A i \in CanAct(h.state) :
                  /\ h.state.players[i].id \in ActedWith(rm, a.playerId, h.state)
                  /\ h.state.players[i].streetBet = MaxActiveBet(h.state)

\* --------------------------------------------------------------- shuffle
\* the players whose shuffle the hand has applied, and the players still in the
\* hand whose shuffle it has not
Shuffled(rm) == Range(rm.engine.deck)
ToShuffle(rm) == {i \in NotFolded(rm.engine) : rm.engine.players[i].id \notin Shuffled(rm)}

\* round-robin in seat order: the first of them (Null when there is none)
CurrentShuffler(rm) ==
    IF ToShuffle(rm) = {} THEN Null
    ELSE rm.engine.players[CHOOSE i \in ToShuffle(rm) : \A j \in ToShuffle(rm) : i <= j].id

\* C12: in the shuffle phase only the submission of the current shuffler (the
\* first player of the hand, in seat order, that has not shuffled) is accepted
\* and any other player is answered NOT_YOUR_TURN; no player's shuffle is
\* applied twice; and dealing starts only when every player still in the hand
\* has had a shuffle accepted.
C12_ShuffleRoundRobin ==
    \A m \in Submissions :
        m.kind = "shuffle" /\ RoomOf(m.pid).engine.status = "shuffle" =>
            /\ m.pid # CurrentShuffler(RoomOf(m.pid))
                  => ~Applied(m) /\ ReplyTo(m).code = "NOT_YOUR_TURN"
            /\ Applied(m) => m.pid \notin Shuffled(RoomOf(m.pid))
            /\ After(m).engine.status = "dealing" => ToShuffle(After(m)) = {}

\* ------------------------------------------------------------ hole cards
\* the trackers of the hole cards, the players still in the hand, and a hole
\* card every player still in the hand other than its owner has unmasked
HoleTrackers(rm) == {rm.unmaskTrackers[k] : k \in HoleKeys(rm)}
InHand(rm) == {rm.engine.players[i].id : i \in NotFolded(rm.engine)}
FullyUnmasked(rm, t) == (InHand(rm) \ {t.forPlayerId}) \subseteq t.unmaskedBy

\* the unmask submission that completes the dealing: checkHoleCardUnmaskComplete
\* sends card_fully_unmasked to the owners and starts the betting
Delivers(m) ==
    /\ m.kind = "unmask" /\ RoomOf(m.pid).engine.status = "dealing"
    /\ After(m).engine.status = "betting"

\* an unmask submission for a hole card of the sender's own
OwnCard(m) ==
    /\ m.kind = "unmask" /\ HoleKey(m.sub.cardIndex) \in DOMAIN RoomOf(m.pid).unmaskTrackers
    /\ RoomOf(m.pid).unmaskTrackers[HoleKey(m.sub.cardIndex)].forPlayerId = m.pid

\* C13: the hole cards are delivered as fully unmasked only when, for each of
\* them, every player of the hand other than its owner has had an unmask
\* accepted; an owner's unmask of the owner's own hole card is rejected; and in
\* a two-player hand one accepted unmask per card, by the other player,
\* completes the delivery.
C13_HoleCardUnmasking ==
    \A m \in Submissions :
        /\ Delivers(m) =>
              \A t \in HoleTrackers(After(m)) :
                  t.forPlayerId \in InHand(After(m)) => FullyUnmasked(After(m), t)
        /\ OwnCard(m) => ~Applied(m) /\ ReplyTo(m).code # "none"
        /\ /\ m.kind = "unmask" /\ RoomOf(m.pid).engine.status = "dealing"
           /\ Len(RoomOf(m.pid).engine.players) = 2 /\ Applied(m)
           /\ \A t \in HoleTrackers(After(m)) : t.unmaskedBy # {}
           => After(m).engine.status = "betting"

\* ------------------------------------------------------- community cards
\* the rooms with a hand, and the players a tracker's card has been sent to
\* with an unmask_request that they have not answered
Hands == {rooms[r] : r \in {x \in DOMAIN rooms : HasEngine(rooms[x])}}
Outstanding(t) == t.requested \ t.unmaskedBy

\* an unmask of community card k[2] that a connected player of the room sends,
\* asked or not
CommunityUnmask(rm, k, proof) ==
    [cardIndex |-> k[2], proof |-> proof,
     inputCardCommitment |-> cardCommitmentsGet(rm, k[2])]

\* C14: a community card has at most one unmask request outstanding at a time,
\* and the request to the next player of its queue is issued only when the
\* unmask of the player asked before has been accepted.
C14_OneCommunityRequestAtATime ==
    \A rm \in Hands : \A k \in CommunityKeys(rm) :
        /\ Cardinality(Outstanding(rm.unmaskTrackers[k])) <= 1
        /\ \A pid \in Present(rm) : \A proof \in Proofs :
              LET after == submitUnmask(rm, pid, CommunityUnmask(rm, k, proof)).room
              IN  k \in DOMAIN after.unmaskTrackers =>
                    /\ Cardinality(Outstanding(after.unmaskTrackers[k])) <= 1
                    /\ after.unmaskTrackers[k].requested # rm.unmaskTrackers[k].requested
                          => pid \in Outstanding(rm.unmaskTrackers[k])

\* the deck indices of the five community cards of a hand: 2N .. 2N+4
CommunityIndices(s) == (2 * Len(s.players))..(2 * Len(s.players) + 4)

\* C15: whenever a hand is at showdown (hand reveals have been requested) with
\* two or more players still in, its five community cards, deck indices
\* 2N..2N+4, have been dealt and none of them is still being unmasked, also
\* when the remaining streets were run out because the players are all-in.
C15_BoardCompleteAtShowdown ==
    \A rm \in Hands :
        rm.showdownTimer /\ Cardinality(NotFolded(rm.engine)) >= 2
            => /\ Range(rm.communityCardIndices) = CommunityIndices(rm.engine)
               /\ CommunityKeys(rm) = {}

\* ------------------------------------------------------------ turn timer
\* C16: a player that has the turn to act (betting, no community card being
\* unmasked) has a turn timer armed for that turn; and when the timer expires
\* while its player still holds the turn, the player is folded and the turn
\* passes to another player, or the hand goes to showdown or ends.
C16_TurnTimerFoldsAndAdvances ==
    \A rm \in Hands :
        LET s == rm.engine
            i == getPlayerById(s, rm.turnTimer)
            after == handleTurnTimeout(rm)
        IN  /\ s.status = "betting" /\ CommunityKeys(rm) = {} /\ Current(s) \in CanAct(s)
                  => rm.turnTimer = s.players[Current(s)].id
            /\ /\ rm.turnTimer # Null /\ i # 0 /\ s.status = "betting"
               /\ s.players[i].seatIndex = s.actionPos
               => \/ ~HasEngine(after)
                  \/ /\ after.engine.players[i].folded
                     /\ \/ after.engine.status = "showdown"
                        \/ Current(after.engine) \notin {0, i}

\* ------------------------------------------------------------ phase timeout
\* the players a hand is waiting for: one to shuffle, or those asked to unmask
AwaitsShuffle(rm) == rm.engine.status = "shuffle"
AwaitsUnmask(rm) == \E k \in DOMAIN rm.unmaskTrackers : Outstanding(rm.unmaskTrackers[k]) # {}

\* C17: while a hand waits for a player to shuffle or for a player asked to
\* unmask a card, a timeout is armed in the room, so that the wait ends even
\* when the player never submits.
C17_PhaseTimeoutArmed ==
    \A rm \in Hands :
        AwaitsShuffle(rm) \/ AwaitsUnmask(rm) => rm.turnTimer # Null \/ rm.showdownTimer

\* ---------------------------------------------------------- showdown timeout
\* the players of a hand's showdown that have revealed, and those that have not
Revealers(rm) == {i \in NotFolded(rm.engine) : rm.engine.players[i].id \in DOMAIN rm.handReveals}
NonRevealers(rm) == NotFolded(rm.engine) \ Revealers(rm)

\* what player i of the hand of rm has gained once the showdown timeout has fired
TimeoutGain(rm, i) ==
    handleShowdownTimeout(rm).ended.finalStacks[i].stack - rm.engine.players[i].stack

\* C18: when the showdown timeout fires while a player still in the hand has
\* not revealed, every such player is folded and receives nothing, and the
\* players who did reveal receive the whole pot between them.
C18_ShowdownTimeoutForfeits ==
    \A rm \in Hands :
        rm.showdownTimer /\ NonRevealers(rm) # {} =>
            /\ \A i \in NonRevealers(rm) :
                  /\ rm.engine.players[i].id \in handleShowdownTimeout(rm).ended.folded
                  /\ TimeoutGain(rm, i) = 0
            /\ SumSeq([i \in DOMAIN rm.engine.players |->
                          IF i \in Revealers(rm) THEN TimeoutGain(rm, i) ELSE 0])
                  = rm.engine.pot

\* ------------------------------------------------------------- next hand
AllReady(rm) == \A i \in DOMAIN rm.players : rm.players[i].isReady
NoneReady(rm) == \A i \in DOMAIN rm.players : ~rm.players[i].isReady

\* a step in which the hand of room rid ends, and one in which a hand begins
HandEnds(rid) == HasEngine(rooms[rid]) /\ ~HasEngine(rooms'[rid])
HandBegins(rid) == ~HasEngine(rooms[rid]) /\ HasEngine(rooms'[rid])

ReadyToStart ==
    \A r \in DOMAIN rooms \cap DOMAIN rooms' :
        /\ HandEnds(r) /\ rooms'[r].players # << >>
              => rooms'[r].status = "waiting" /\ NoneReady(rooms'[r])
        /\ HandBegins(r)
              => /\ rooms[r].status = "waiting" /\ rooms'[r].status = "in_game"
                 /\ AllReady(rooms'[r]) /\ Len(rooms'[r].players) >= MinPlayers
                 /\ Len(rooms'[r].engine.players) = Len(rooms'[r].players)

\* C19: a step that ends a hand leaves the room waiting with every player
\* not ready, and a step that begins a hand leaves every player of the room
\* ready, with at least MinPlayers of them, all of them in the hand: a hand
\* never begins while a player of the room has not signalled ready.
C19_NextHandWhenAllReady == [][ReadyToStart]_vars

\* a hand has ended, the room has the players for another, some of them have
\* signalled ready and some have not, and no hand has begun
C19_Witness ==
    \E r \in DOMAIN rooms :
        /\ ~HasEngine(rooms[r]) /\ rooms[r].lastButtonPos # NoSeat
        /\ rooms[r].status = "waiting" /\ Len(rooms[r].players) >= MinPlayers
        /\ ~AllReady(rooms[r]) /\ ~NoneReady(rooms[r])

\* ------------------------------------------------------------ last fold
\* player i of the hand of rm is one of the two players that have not folded
LastTwo(rm, i) == i \in NotFolded(rm.engine) /\ Cardinality(NotFolded(rm.engine)) = 2
Opponent(rm, i) == CHOOSE w \in NotFolded(rm.engine) : w # i

\* the hand of rm has ended in room after with reason fold, player w's stack
\* has grown by the pot and the other stacks are as they were
WonByFold(rm, after, w) ==
    /\ ~HasEngine(after) /\ after.ended.status = "ended" /\ after.ended.reason = "fold"
    /\ \A j \in DOMAIN rm.engine.players :
          after.ended.finalStacks[j].stack =
              rm.engine.players[j].stack + (IF j = w THEN rm.engine.pot ELSE 0)

\* the folds a state offers: a fold submitted and applied, the fold of the
\* turn timer's player when the engine accepts it, the fold of a player that
\* leaves the room
FoldSubmissions ==
    {m \in Submissions : /\ m.kind = "action" /\ m.sub.action.type = FOLD
                         /\ HasEngine(RoomOf(m.pid)) /\ Applied(m)}
TimeoutFolds ==
    {rm \in Hands : /\ rm.turnTimer # Null
                    /\ applyAction(rm.engine, [playerId |-> rm.turnTimer, type |-> FOLD,
                                                amount |-> 0]).success}
Leavers == {pid \in Senders : HasEngine(RoomOf(pid)) /\ RoomOf(pid).status = "in_game"}
AfterLeave(pid) ==
    LET w == handleLeaveRoom(World, pid)
        rid == roomIdOf(World, pid)
    IN  IF rid \in DOMAIN w.rooms THEN w.rooms[rid] ELSE NewRoom

\* C20: when a fold (submitted, of the turn timer, or of a player leaving the
\* room) is that of one of the last two players that have not folded, the
\* hand ends in the same step with reason fold and the other player's stack
\* grows by the whole pot.
C20_LastFoldWinsPot ==
    /\ \A m \in FoldSubmissions :
          LET rm == RoomOf(m.pid)
              i == getPlayerById(rm.engine, m.pid)
          IN  LastTwo(rm, i) => WonByFold(rm, After(m), Opponent(rm, i))
    /\ \A rm \in TimeoutFolds :
          LET i == getPlayerById(rm.engine, rm.turnTimer)
          IN  LastTwo(rm, i) => WonByFold(rm, handleTurnTimeout(rm), Opponent(rm, i))
    /\ \A pid \in Leavers :
          LET rm == RoomOf(pid)
              i == getPlayerById(rm.engine, pid)
          IN  LastTwo(rm, i) => WonByFold(rm, AfterLeave(pid), Opponent(rm, i))

\* heads-up, before any action: the player that has posted the small blind
\* folds, and the hand ends with the big blind holding the starting stack plus
\* the small blind and the folder the starting stack less the small blind
C20_Witness ==
    \E m \in FoldSubmissions :
        LET rm == RoomOf(m.pid)
            i == getPlayerById(rm.engine, m.pid)
        IN  /\ LastTwo(rm, i) /\ Len(rm.engine.players) = 2
            /\ rm.engine.street = PREFLOP /\ rm.engine.pot = SmallBlind + BigBlind
            /\ rm.engine.players[i].totalBet = SmallBlind
            /\ After(m).ended.finalStacks[Opponent(rm, i)].stack = StartingStack + SmallBlind
            /\ After(m).ended.finalStacks[i].stack = StartingStack - SmallBlind

\* ------------------------------------------------------------ minimum raise
\* what an accepted action of the betting adds to the highest street bet
RaisedBy(s, t) == maxStreetBet(t) - maxStreetBet(s)

\* C23: in every betting state the minimum raise is at least the big blind;
\* and an accepted action that raises the highest bet of the street, and
\* leaves the hand on that street, leaves the minimum raise at the size of
\* that raise or, for a raise smaller than the big blind, not below the big
\* blind.
C23_MinRaiseIsLastRaise ==
    /\ \A s \in Betting : s.minRaise >= BigBlind
    /\ \A s \in Betting : \A a \in EngineActions(s) :
          LET r == applyAction(s, a)
              t == r.state
          IN  r.success /\ t.status = "betting" /\ t.street = s.street /\ RaisedBy(s, t) > 0
                => /\ t.minRaise >= BigBlind
                   /\ RaisedBy(s, t) >= BigBlind /\ a.type # ALL_IN
                         => t.minRaise = RaisedBy(s, t)

\* --------------------------------------------------------------------- bet
\* the BET actions the engine accepts in state s
BetsAccepted(s) == {a \in EngineActions(s) : a.type = BET /\ applyAction(s, a).success}

\* C24: an accepted BET is of at least the big blind and at most the bettor's
\* stack, and it is accepted only when nobody has bet on the street: once a
\* BET has been accepted, no other BET is accepted on the same street.
C24_BetOnlyWhenNobodyHasBet ==
    \A s \in Betting : \A a \in BetsAccepted(s) :
        LET t == applyAction(s, a).state
        IN  /\ a.amount >= BigBlind
            /\ a.amount <= s.players[getPlayerById(s, a.playerId)].stack
            /\ t.status = "betting" /\ t.street = s.street => BetsAccepted(t) = {}

\* ---------------------------------------------------------- room registry
\* the clients that are the only player of their room
LastPlayers == {pid \in Senders : PlayerIds(RoomOf(pid)) = {pid}}

\* C25: every room of the registry has a player, and when the only player of
\* a room leaves it, or that player's connection closes, the room is no
\* longer in the registry.
C25_RoomOnlyWhilePlayers ==
    /\ \A r \in DOMAIN rooms : rooms[r].players # << >>
    /\ \A pid \in LastPlayers :
          /\ roomIdOf(World, pid) \notin DOMAIN handleLeaveRoom(World, pid).rooms
          /\ roomIdOf(World, pid) \notin DOMAIN handleDisconnect(World, pid).rooms

\* ---------------------------------------------------------------- odd chips
\* the players a pot is split between: its eligible players that have
\* revealed the rank resolveShowdown takes as the best
Revealed(rm, pot) ==
    {j \in Range(pot.eligiblePlayers) : rm.engine.players[j].id \in DOMAIN rm.handReveals}
TiedWinners(rm, pot) ==
    {j \in Revealed(rm, pot) :
        rm.handReveals[rm.engine.players[j].id].handRank =
            bestRankOf({rm.handReveals[rm.engine.players[i].id].handRank
                          : i \in Revealed(rm, pot)})}

\* how many seats clockwise from the dealer player j sits (the dealer is last)
FromDealer(s, j) == (s.players[j].seatIndex - s.buttonPos - 1 + MaxPlayers) % MaxPlayers
FirstFromDealer(s, W) == CHOOSE j \in W : \A i \in W : FromDealer(s, j) <= FromDealer(s, i)

\* the pots of a showdown that are split between tied winners with chips over
OddPots(rm) ==
    {pot \in Range(calculateSidePots(rm.engine)) :
        /\ Cardinality(TiedWinners(rm, pot)) >= 2
        /\ pot.amount % Cardinality(TiedWinners(rm, pot)) # 0}

BeforeBlinds == {s \in Engines : s.status = "dealing" /\ NotFolded(s) = DOMAIN s.players}

\* player i of t has posted blind, or all of a smaller stack
Posted(s, t, i, blind) ==
    /\ t.players[i].streetBet = Min(blind, s.players[i].stack)
    /\ t.players[i].stack = s.players[i].stack - Min(blind, s.players[i].stack)

\* the small blind is at seat sb, the big blind at seat bb, the turn at seat first
BlindsAt(s, t, sb, bb, first) ==
    /\ Posted(s, t, getPlayerByIndex(s, sb), SmallBlind)
    /\ Posted(s, t, getPlayerByIndex(s, bb), BigBlind)
    /\ t.actionPos = first

\* C30: posting the blinds heads-up, the dealer posts the small blind and has
\* the first turn and the other player posts the big blind; with three or more
\* players the small blind, the big blind and the first turn are at the first,
\* second and third occupied seats after the dealer; and the pot is then the
\* sum of the blinds posted.
C30_BlindsPosted ==
    \A s \in BeforeBlinds :
        LET t == postBlinds(s)
            first == SeatAfter(s, s.buttonPos)
            second == SeatAfter(s, first)
            third == SeatAfter(s, second)
        IN  /\ Len(s.players) = 2 /\ getPlayerByIndex(s, s.buttonPos) # 0
                  => BlindsAt(s, t, s.buttonPos, first, s.buttonPos)
            /\ Len(s.players) >= 3 => BlindsAt(s, t, first, second, third)
            /\ t.pot = s.pot + SumSeq([i \in DOMAIN t.players |-> t.players[i].streetBet])

\* ---------------------------------------------------------------------
\* The deck commitment (circom/sdk/poseidon.js, GameRoom.ts)
\* ---------------------------------------------------------------------

\* A deck is taken as the sequence of its cards' commitments; DeckLen cards
\* stand for the 52, with commitments drawn from 0..MaxHash, and FieldPrime
\* stands for the BN254 scalar field modulus of GameRoom.ts:100
DeckLen == 4
MaxHash == 3
FieldPrime == 7

\* commitDeck: product = 1n; for each card, product * (cardHash + 1n)
commitDeckChained(cards) ==
    LET product[n \in 0..Len(cards)] ==
            IF n = 0 THEN 1 ELSE product[n - 1] * 2 + (cards[n] + 1)
    IN  product[Len(cards)]
commitDeck(cards) ==
    LET product[n \in 0..Len(cards)] ==
            IF n = 0 THEN 1 ELSE product[n - 1] * (cards[n] + 1)
    IN  product[Len(cards)]

\* '0x' + commitment.toString(16).padStart(64, '0'), and the literal '0x1'
Hex(n, width) == <<"0x", width, n>>

\* computeDeckCommitment: '0x1' for no cards, else the product of the card
\* commitments, reduced after every factor, as 64 hex digits
computeDeckCommitment(deck) ==
    IF Len(deck) = 0 THEN Hex(1, 1)
    ELSE LET commitment[n \in 0..Len(deck)] ==
                 IF n = 0 THEN 1 ELSE (commitment[n - 1] * deck[n]) % FieldPrime
         IN  Hex(commitment[Len(deck)], 64)

server == <<connections, playerData, rooms, nextConn, joined>>
Offline ==
    /\ connections = {} /\ playerData = EmptyMap /\ rooms = EmptyMap
    /\ nextConn = 0 /\ joined = {}

Swapped(deck, i, j) == [deck EXCEPT ![i] = deck[j], ![j] = deck[i]]

InitDeck ==
    /\ Offline
    /\ verifying = {} /\ proofQueue = NewQueue /\ alive = EmptyMap /\ card = Null
    /\ \E deck \in [1..DeckLen -> 0..MaxHash] : decks = [first |-> deck, now |-> deck]

\* any two cards change places: every permutation is a run of such steps
Transpose ==
    /\ \E i, j \in 1..DeckLen : i < j /\ decks' = [decks EXCEPT !.now = Swapped(decks.now, i, j)]
    /\ UNCHANGED <<server, proofQueue, verifying, alive, card>>

SpecDeck == InitDeck /\ [][Transpose]_vars

\* C22: the deck commitment is the same for a deck and for any permutation
\* of its cards, in the SDK (commitDeck) and in the server
\* (computeDeckCommitment): it depends on the multiset of card commitments
\* only, not on their order.
C22_DeckCommitmentUnordered ==
    /\ commitDeck(decks.now) = commitDeck(decks.first)
    /\ computeDeckCommitment(decks.now) = computeDeckCommitment(decks.first)

\* a deck of distinct cards, every one of them out of its first place
C22_Witness ==
    /\ Cardinality(Range(decks.first)) = DeckLen
    /\ \A i \in 1..DeckLen : decks.now[i] # decks.first[i]

\* ---------------------------------------------------------------------
\* ElGamal card operations (sdk/src/elgamal.ts, sdk/dist/grumpkin.js)
\* ---------------------------------------------------------------------

\* Grumpkin has prime order and cofactor 1, so its points are the multiples
\* k.G of the generator, k in [0, CURVE_ORDER).  A point is written as that
\* k: the point at infinity is 0, the generator 1, and GroupOrder stands
\* for CURVE_ORDER.  Scalars are reduced modulo the order (randomScalar), so
\* 0 is among them.
GroupOrder == 5
MaxMaskers == 3
Infinity == 0
Generator == 1
Points == 0..(GroupOrder - 1)
Scalars == 0..(GroupOrder - 1)

addPoints(p1, p2) ==
    IF p1 = Infinity THEN p2
    ELSE IF p2 = Infinity THEN p1
    ELSE IF (p1 + p2) % GroupOrder = 0 THEN Infinity
    ELSE (p1 + p2) % GroupOrder

subtractPoints(p1, p2) == addPoints(p1, (GroupOrder - p2) % GroupOrder)

\* double-and-add from the low bit of the scalar
scalarMul(point, k) ==
    IF k = 0 \/ point = Infinity THEN Infinity
    ELSE LET result[n \in 0..k, current \in Points] ==
                 IF n = 0 THEN Infinity
                 ELSE addPoints(IF n % 2 = 1 THEN current ELSE Infinity,
                                result[n \div 2, addPoints(current, current)])
         IN  result[k, point]

fixedBaseScalarMul(k) == scalarMul(Generator, k)

\* a thrown Error ends the computation: the card carries its message
NoError == "none"
Thrown(c, message) == [c EXCEPT !.error = message]
createCardFromPoint(point) == [epk |-> Infinity, msg |-> point, pk |-> Infinity, error |-> NoError]

addPlayerToCardMaskAsFirst(c, playerSecret) ==
    [c EXCEPT !.pk = IF c.pk = Infinity THEN fixedBaseScalarMul(playerSecret)
                     ELSE addPoints(c.pk, fixedBaseScalarMul(playerSecret))]
addPlayerToCardMask(c, playerSecret) ==
    LET playerPub == fixedBaseScalarMul(playerSecret)
        isFirstPlayer == c.pk = Infinity
        newPk == IF isFirstPlayer THEN playerPub ELSE addPoints(c.pk, playerPub)
        newMsg == IF isFirstPlayer \/ c.epk = Infinity THEN c.msg
                  ELSE addPoints(c.msg, scalarMul(c.epk, playerSecret))
    IN  [c EXCEPT !.msg = newMsg, !.pk = newPk]

mask(c, nonce) ==
    IF c.pk = Infinity THEN Thrown(c, "Cannot mask card with no players")
    ELSE LET ephemeralPub == fixedBaseScalarMul(nonce)
             newEpk == IF c.epk = Infinity THEN ephemeralPub ELSE addPoints(c.epk, ephemeralPub)
             sharedSecret == scalarMul(c.pk, nonce)
         IN  [c EXCEPT !.epk = newEpk, !.msg = addPoints(c.msg, sharedSecret)]

partialUnmask(c, playerSecret) ==
    IF c.pk = Infinity THEN Thrown(c, "Card is already unmasked")
    ELSE IF c.epk = Infinity THEN Thrown(c, "Invalid epk for unmasking")
    ELSE LET decryptionShare == scalarMul(c.epk, playerSecret)
             newMsg == IF c.msg = decryptionShare THEN Infinity
                       ELSE subtractPoints(c.msg, decryptionShare)
             playerPub == fixedBaseScalarMul(playerSecret)
             newPk == IF c.pk = playerPub THEN Infinity ELSE subtractPoints(c.pk, playerPub)
         IN  [c EXCEPT !.msg = newMsg, !.pk = newPk]

addPlayerAndMask(c, playerSecret, nonce) == mask(addPlayerToCardMask(c, playerSecret), nonce)

\* One card of value v: the players mask it one after the other, each with
\* a secret and a nonce, and then take their shares off in some order.
\* card.secrets are the secrets of the players who masked, card.unmasked the
\* players who have unmasked, in the order they did.
InitElGamal ==
    /\ Offline
    /\ verifying = {} /\ proofQueue = NewQueue /\ alive = EmptyMap /\ decks = Null
    /\ \E v \in Points :
          card = [value |-> v, now |-> createCardFromPoint(v), secrets |-> << >>, unmasked |-> << >>]

AddAndMask ==
    /\ card.now.error = NoError /\ card.unmasked = << >>
    /\ Len(card.secrets) < MaxMaskers
    /\ \E s \in Scalars, nonce \in Scalars :
          card' = [card EXCEPT !.now = addPlayerAndMask(card.now, s, nonce),
                               !.secrets = Append(card.secrets, s)]
    /\ UNCHANGED <<server, proofQueue, verifying, alive, decks>>

Unmask ==
    /\ card.now.error = NoError
    /\ \E i \in DOMAIN card.secrets \ Range(card.unmasked) :
          card' = [card EXCEPT !.now = partialUnmask(card.now, card.secrets[i]),
                               !.unmasked = Append(card.unmasked, i)]
    /\ UNCHANGED <<server, proofQueue, verifying, alive, decks>>

SpecElGamal == InitElGamal /\ [][AddAndMask \/ Unmask]_vars

AllUnmasked == card.secrets # << >> /\ Len(card.unmasked) = Len(card.secrets)
Recovered == card.now.pk = Infinity /\ card.now.msg = card.value

MaxSockets == 4
Sockets == 1..MaxSockets

\* wss.clients: the sockets that are open
Clients == {ws \in DOMAIN alive : alive[ws].readyState = "open"}

\* wss.on('connection'): isAlive = true.  missed counts the pings in a row
\* that the peer has left unanswered; awaited says a ping is out
connection(ws) ==
    (ws :> [readyState |-> "open", isAlive |-> TRUE, awaited |-> FALSE, missed |-> 0]) @@ alive

\* ws.on('pong'): isAlive = true
pong(ws) == [alive EXCEPT ![ws].isAlive = TRUE, ![ws].awaited = FALSE, ![ws].missed = 0]

\* the setInterval callback, for one socket: a socket whose isAlive is
\* false is terminated, any other has isAlive cleared and is pinged.  A
\* ping still out when the callback runs has been missed
heartbeat(sock) ==
    LET seen == [sock EXCEPT !.missed = IF sock.awaited THEN sock.missed + 1 ELSE sock.missed]
    IN  IF sock.isAlive = FALSE
        THEN [seen EXCEPT !.readyState = "terminated", !.awaited = FALSE]
        ELSE [seen EXCEPT !.isAlive = FALSE, !.awaited = TRUE]

InitHeartbeat ==
    /\ Offline
    /\ verifying = {} /\ proofQueue = NewQueue /\ card = Null /\ decks = Null
    /\ alive = EmptyMap

Connection ==
    /\ \E ws \in Sockets \ Clients : alive' = connection(ws)
    /\ UNCHANGED <<server, proofQueue, verifying, card, decks>>

Pong ==
    /\ \E ws \in Clients : alive[ws].awaited /\ alive' = pong(ws)
    /\ UNCHANGED <<server, proofQueue, verifying, card, decks>>

Heartbeat ==
    /\ Clients # {}
    /\ alive' = [ws \in DOMAIN alive |-> IF ws \in Clients THEN heartbeat(alive[ws]) ELSE alive[ws]]
    /\ UNCHANGED <<server, proofQueue, verifying, card, decks>>

\* the peer closes the socket
Close ==
    /\ \E ws \in Clients : alive' = [alive EXCEPT ![ws].readyState = "closed"]
    /\ UNCHANGED <<server, proofQueue, verifying, card, decks>>

SpecHeartbeat == InitHeartbeat /\ [][Connection \/ Pong \/ Heartbeat \/ Close]_vars

\* C29: the heartbeat terminates a connection only after that connection
\* has missed two pings in a row; a connection that has missed one ping is
\* still open to answer the next.
C29_TerminatedAfterTwoMissedPings ==
    \A ws \in DOMAIN alive : alive[ws].readyState = "terminated" => alive[ws].missed >= 2

\* ---------------------------------------------------------------------
\* Proof verification in flight (GameRoom.submitShuffle, submitAction)
\* ---------------------------------------------------------------------

\* submitShuffle and submitAction are async: with a proof and a public
\* witness they run up to `await proofVerifier.verify(...)`, other handlers
\* run while the proof is verified, and the rest of the method runs when the
\* verification is done.  No more than MaxVerifying are followed at a time.
MaxVerifying == 2

\* the method reaches its await: the checks before it have passed
Awaited(rm, kind, pid, sub) ==
    /\ sub.proof # "none"
    /\ HasEngine(rm)
    /\ kind = "shuffle" =>
          LET players == SortBySeat(rm.players)
              cs == rm.engine.currentShuffler
          IN  /\ rm.engine.status = "shuffle"
              /\ cs + 1 <= Len(players) /\ players[cs + 1].id = pid
    /\ kind = "action" => rm.engine.status = "betting"

\* what the continuation holds on to: the arguments, the players array read
\* before the await (its length) and the deck parsed from the message
Verification(rm, rid, kind, pid, sub) ==
    [rid |-> rid, pid |-> pid, kind |-> kind, sub |-> sub,
     status |-> rm.engine.status, turn |-> rm.engine.currentShuffler,
     players |-> IF kind = "shuffle" THEN Len(rm.players) ELSE 0,
     deck |-> IF kind = "shuffle" THEN ShuffledDeck(rm.engine.deck, pid) ELSE << >>]

\* submitShuffle from `state.deck = parsedDeck` on
shuffleVerified(rm, v) ==
    LET rm1 == [rm EXCEPT !.engine.deck = v.deck,
                          !.deckCommitment = v.sub.deckCommitmentAfter,
                          !.cardCommitments = v.deck,
                          !.engine.currentShuffler = @ + 1]
    IN  IF rm1.engine.currentShuffler >= v.players THEN startDealingPhase(rm1) ELSE rm1

\* submitAction from `this.engine.applyAction(action)` on
actionVerified(rm, v) == ActionResult(rm, v.pid, applyAction(rm.engine, v.sub.action)).room

\* the method after its await
Resumed(rm, v) ==
    IF ProofRejected(v.sub.proof) THEN rm
    ELSE IF v.kind = "shuffle" THEN shuffleVerified(rm, v)
    ELSE actionVerified(rm, v)

\* the submissions that are followed through their verification: shuffles
\* with a proof, good or bad, and folds with a good one
Followed(rm, kind, pid) ==
    {sub \in Subs(rm, kind, pid) :
        /\ kind = "shuffle" => sub.deckCommitmentBefore = rm.deckCommitment
        /\ kind = "action" => sub.proof = "good" /\ sub.action.type = FOLD}

BeginVerify(pid) ==
    /\ Sender(pid)
    /\ Cardinality(verifying) < MaxVerifying
    /\ \E kind \in {"shuffle", "action"} :
          /\ kind = "action" => RoomOf(pid).turnTimer # Null
          /\ \E sub \in Followed(RoomOf(pid), kind, pid) :
                /\ Awaited(RoomOf(pid), kind, pid, sub)
                /\ verifying' = verifying \cup
                      {Verification(RoomOf(pid), roomIdOf(World, pid), kind, pid, sub)}
    /\ UNCHANGED <<server, proofQueue, alive, card, decks>>

CompleteVerify ==
    /\ \E v \in verifying :
          /\ rooms' = [rooms EXCEPT ![v.rid] = Sent(Resumed(rooms[v.rid], v))]
          /\ verifying' = StillVerifying(verifying \ {v}, rooms')
    /\ UNCHANGED <<connections, playerData, nextConn, joined, alive, card, decks, proofQueue>>

NextVerify ==
    \/ Next
    \/ \E pid \in Players : BeginVerify(pid)
    \/ CompleteVerify

SpecVerify == Init /\ [][NextVerify]_vars

Pending(pid) == {v \in verifying : v.pid = pid}

\* C26: while a submission of a player is being verified, any further
\* submission of that player is rejected with BUSY and changes nothing, so a
\* room never has more than one verification pending per player.
C26_BusyWhileVerifying ==
    /\ \A pid \in Players : Cardinality(Pending(pid)) <= 1
    /\ \A m \in Submissions :
          Pending(m.pid) # {} => ReplyTo(m).code = "BUSY" /\ ~Applied(m)

\* the player has lost the connection or is no longer of the room
Gone(v) == v.pid \notin connections \/ ~hasPlayer(rooms[v.rid], v.pid)

\* C27: when a player disconnects or leaves the room while a submission of
\* that player is being verified, the continuation that runs when the
\* verification completes checks the player's liveness and applies nothing.
C27_ContinuationChecksLiveness ==
    \A v \in verifying : Gone(v) => Sent(Resumed(rooms[v.rid], v)) = rooms[v.rid]

\* ---------------------------------------------------------------------
\* Errors, the proof queue, and whole hands
\* ---------------------------------------------------------------------

\* the action submissions, in the betting phase, of senders that do not
\* hold the turn
OutOfTurn ==
    {m \in Submissions : /\ m.kind = "action"
                         /\ HasEngine(RoomOf(m.pid))
                         /\ RoomOf(m.pid).engine.status = "betting"
                         /\ getPlayerById(RoomOf(m.pid).engine, m.pid)
                               # Current(RoomOf(m.pid).engine)}

\* C31: an action submitted by a player who does not hold the turn is
\* rejected with the error 'Not your turn' (once its proof, if it carries
\* one, has passed) and leaves the room as it was: pot, stacks, street bets,
\* folded and all-in flags, street, turn position and everything else.
C31_OutOfTurnRejected ==
    \A m \in OutOfTurn :
        /\ ~Applied(m)
        /\ ReplyTo(m).code \in {"INVALID_ACTION", "INVALID_PROOF"}
        /\ ~ProofRejected(m.sub.proof) => ReplyTo(m).message = "Not your turn"

\* a player still in the hand, with chips, sends a fold out of turn
C31_Witness ==
    \E m \in OutOfTurn :
        LET s == RoomOf(m.pid).engine
            i == getPlayerById(s, m.pid)
        IN  /\ i # 0 /\ ~s.players[i].folded /\ ~s.players[i].allIn
            /\ Current(s) # 0
            /\ m.sub.action.type = FOLD /\ m.sub.proof = "good"

\* the connections that are in no room, and what such a connection may send
\* as a submit_* message
Members == UNION {PlayerIds(rooms[r]) : r \in DOMAIN rooms}
Stray == connections \ Members
StraySubs(kind, pid) ==
    CASE kind = "shuffle" -> [proof : Proofs, deckCommitmentBefore : {MismatchCommitment},
                              deckCommitmentAfter : {MismatchCommitment}]
      [] kind = "unmask" -> [cardIndex : {0, 1}, proof : Proofs,
                             inputCardCommitment : {MismatchCommitment}]
      [] kind = "action" -> ActionSubs(pid)
      [] kind = "reveal" -> [handRank : HandRanks, proof : Proofs]

\* C32: a join_room naming a room that does not exist is answered with
\* ROOM_NOT_FOUND, and an action, shuffle, unmask or hand-reveal submission
\* of a connection that is in no room with NOT_IN_ROOM; the sender gets the
\* error and neither the registry nor any room changes.
C32_StrayRequestsRejected ==
    /\ \A pid \in connections : \A rid \in RoomIds \ DOMAIN rooms :
          joinRoom(World, rid, pid) = WRes(World, Err("ROOM_NOT_FOUND", "Room not found"))
    /\ \A pid \in Stray : \A kind \in Kinds : \A sub \in StraySubs(kind, pid) :
          /\ handleSubmit(World, kind, pid, sub).reply.code = "NOT_IN_ROOM"
          /\ handleSubmit(World, kind, pid, sub).w = World

\* a client that has left its room while a hand is on in it
C32_Witness ==
    \E pid \in Stray \cap joined : \E r \in DOMAIN rooms : HasEngine(rooms[r])

\* ---------------------------------------------------------------------
\* The proof queue (ProofQueue.ts)
\* ---------------------------------------------------------------------

maxConcurrent == 2
MaxProofs == 5
ProofIds == 1..MaxProofs

\* processNext up to its await: nothing when the workers are busy or the
\* queue is empty, else the head of the queue goes to the verifier
processNextUnbounded(q) ==
    IF Len(q.queue) = 0 THEN q
    ELSE [q EXCEPT !.queue = Tail(@), !.activeCount = @ + 1,
                   !.active = @ \cup {Head(q.queue)}]
processNext(q) ==
    IF q.activeCount >= maxConcurrent \/ Len(q.queue) = 0 THEN q
    ELSE [q EXCEPT !.queue = Tail(@), !.activeCount = @ + 1,
                   !.active = @ \cup {Head(q.queue)}]

enqueue(q, id) == processNext([q EXCEPT !.queue = Append(@, id)])

\* processNext after its await, for item id: onComplete, which may enqueue
\* (more is a sequence of ids), and then the finally block
verified(q, id, more) ==
    LET called == IF more = << >> THEN q ELSE enqueue(q, more[1])
    IN  processNext([called EXCEPT !.activeCount = @ - 1, !.active = @ \ {id}])

clear(q) == [q EXCEPT !.queue = << >>]

\* the ids that are neither queued nor with the verifier
Fresh == ProofIds \ (Range(proofQueue.queue) \cup proofQueue.active)

InitQueue ==
    /\ Offline
    /\ verifying = {} /\ alive = EmptyMap /\ card = Null /\ decks = Null
    /\ proofQueue = NewQueue

Enqueue ==
    /\ \E id \in Fresh : proofQueue' = enqueue(proofQueue, id)
    /\ UNCHANGED <<server, verifying, alive, card, decks>>

Verified ==
    /\ \E id \in proofQueue.active :
          \E more \in {<< >>} \cup {<<n>> : n \in Fresh} :
              proofQueue' = verified(proofQueue, id, more)
    /\ UNCHANGED <<server, verifying, alive, card, decks>>

Clear ==
    /\ proofQueue.queue # << >>
    /\ proofQueue' = clear(proofQueue)
    /\ UNCHANGED <<server, verifying, alive, card, decks>>

SpecQueue == InitQueue /\ [][Enqueue \/ Verified \/ Clear]_vars

\* C33: whatever the order of enqueues and completions, the proof queue
\* never has more than maxConcurrent verifications in progress, and its
\* activeCount is the number in progress.
C33_BoundedWorkers ==
    /\ Cardinality(proofQueue.active) <= maxConcurrent
    /\ proofQueue.activeCount = Cardinality(proofQueue.active)

\* both workers busy and more proofs waiting than there are workers
C33_Witness ==
    /\ Cardinality(proofQueue.active) = maxConcurrent
    /\ Len(proofQueue.queue) > maxConcurrent

\* ------------------------------------------------------------ whole hands
\* the rooms a handler can leave behind from the present state at the end of
\* a hand: after a submission, a timer, a leave or a close of a connection
HandOutcomes ==
    {o \in {After(m) : m \in Submissions}
           \cup {handleTurnTimeout(rm) : rm \in {h \in Hands : h.turnTimer # Null}}
           \cup {handleShowdownTimeout(rm) : rm \in {h \in Hands : h.showdownTimer}}
           \cup {AfterLeave(pid) : pid \in Senders}
           \cup {AfterDisconnect(pid) : pid \in Senders}
        : o.ended.status = "ended"}

\* C34: by whatever route a hand ends, the stacks announced at its end add up
\* to the stacks the players had before the blinds were posted (startGame
\* gives each of them the starting stack): the whole pot has been paid out
C34_ChipsConserved ==
    \A o \in HandOutcomes :
        SumSeq([j \in DOMAIN o.ended.finalStacks |-> o.ended.finalStacks[j].stack])
            = Len(o.ended.finalStacks) * StartingStack

\* the room after the first k players of the room have sent ready
RECURSIVE ReadyAll(_, _)
ReadyAll(rm, k) ==
    IF k = 0 THEN rm
    ELSE setPlayerReady(ReadyAll(rm, k - 1), rm.players[k].id, TRUE)

\* the next hand of a room whose hand has just ended: game_ended has been
\* sent and every player of the room signals ready
NextHand(o) == ReadyAll(Sent(o), Len(o.players))

\* C35: a player of two hands in a row of a room starts the second hand with
\* the stack the first hand ended with: chips won and lost carry over
C35_StacksPersist ==
    \A o \in HandOutcomes :
        HasEngine(NextHand(o)) =>
            \A i \in DOMAIN NextHand(o).engine.players, j \in DOMAIN o.ended.finalStacks :
                NextHand(o).engine.players[i].id = o.ended.finalStacks[j].playerId
                    => NextHand(o).engine.players[i].stack = o.ended.finalStacks[j].stack

\* C36: in the betting phase the turn is held by a player of the hand who is
\* still in the room, has not folded and is not all-in
C36_TurnHolderCanAct ==
    \A rm \in HandsBetting :
        /\ Current(rm.engine) # 0
        /\ rm.engine.players[Current(rm.engine)].id \in PlayerIds(rm)
        /\ ~rm.engine.players[Current(rm.engine)].folded
        /\ ~rm.engine.players[Current(rm.engine)].allIn

\* C37: the player whose turn it is has not acted on this street since the
\* last bet or raise (acted holds the players who have): nobody is given a
\* second turn on a street without a bet or raise in between
C37_NoSecondTurnWithoutRaise ==
    \A rm \in HandsBetting :
        Current(rm.engine) # 0
            => rm.engine.players[Current(rm.engine)].id \notin rm.acted

\* the blinds of the hand of rm have been posted
BlindsIn(rm) == HasEngine(rm) /\ rm.engine.status \notin {"shuffle", "dealing"}

\* the step from rm to after has taken no chips from a player
NoneTaken(rm, after) ==
    HasEngine(after) => after.engine.pot = rm.engine.pot
                        /\ Stacks(after.engine) = Stacks(rm.engine)

\* C38: once the blinds of a hand have been posted, no unmask submission and
\* no player leaving the room posts them again: the pot and the stacks of the
\* hand are as they were
C38_BlindsPostedOnce ==
    /\ \A m \in Submissions :
          m.kind = "unmask" /\ BlindsIn(RoomOf(m.pid)) => NoneTaken(RoomOf(m.pid), After(m))
    /\ \A pid \in Leavers :
          BlindsIn(RoomOf(pid)) => NoneTaken(RoomOf(pid), AfterLeave(pid))

\* C39: while community cards of the street are still being unmasked (their
\* trackers are kept until the last unmask is in and the cards are
\* broadcast), no betting action is applied
C39_NoActionBeforeBoardUnmasked ==
    \A m \in Submissions :
        m.kind = "action" /\ CommunityKeys(RoomOf(m.pid)) # {} => ~Applied(m)

\* ---------------------------------------------------------------------
\* The lobby: rooms and who is in them (RoomManager.ts, MessageHandler.ts)
\* ---------------------------------------------------------------------

\* The registry with room for two rooms (config.maxRooms is 100), and clients
\* that send join_room, with a room id or without, whenever they like, and
\* leave_room, and close their connections; no hand is started
LobbyRoomIds == {"r1", "r2"}

LobbyJoinRoom(pid) ==
    /\ pid \in connections
    /\ \E rid \in LobbyRoomIds \cup {Null} :
          Joined(IF rid = Null THEN createRoomAmong(LobbyRoomIds, World, pid).w
                 ELSE joinRoom(World, rid, pid).w, pid)

NextLobby ==
    \/ Connect
    \/ \E pid \in Players : LobbyJoinRoom(pid)
    \/ \E pid \in Players : LeaveRoom(pid)
    \/ \E pid \in Players : Disconnect(pid)

SpecLobby == Init /\ [][NextLobby]_vars

\* the rooms of the registry that have pid among their players
RoomsWith(pid) == {r \in DOMAIN rooms : hasPlayer(rooms[r], pid)}

\* C40: a connected player is in at most one room, and the room recorded for
\* the player's connection is the room the player is in (none when the
\* player is in no room)
C40_OneRoomPerPlayer ==
    \A pid \in connections :
        /\ Cardinality(RoomsWith(pid)) <= 1
        /\ \A r \in RoomsWith(pid) : roomIdOf(World, pid) = r
        /\ roomIdOf(World, pid) # Null => roomIdOf(World, pid) \in RoomsWith(pid)

====
